---- MODULE Spec2Model ----
(***************************************************************************)
(* Model of the cache orchestration layer of Nuvix-Tech/cache.              *)
(*                                                                         *)
(* The enhanced manager (Cache, unnamed/part_007) over the enhanced Redis   *)
(* adapter (Redis, unnamed/part_011) and the Redis keyspace it talks to:    *)
(*   Spec        : single-key set and get, in two namespaces                *)
(*   SpecExpiry  : set, get, mget and expire in one namespace               *)
(*   SpecBatch   : set, mset, mget, delete, deleteMany and expire           *)
(*   SpecFlush   : tagged set in two namespaces, flushNamespace,            *)
(*                 flushByTags                                              *)
(* The retrying manager (Cache, src/manager.ts, second revision) over       *)
(* RedisAdapter (src/adapters/redis.ts):                                    *)
(*   SpecManager : set, get, delete, mget and mset                          *)
(*                                                                         *)
(* Strings whose characters matter (keys, namespaces, patterns) are         *)
(* sequences of one-character strings, so that concatenation, length and    *)
(* glob matching are computed as the code computes them.                    *)
(***************************************************************************)
EXTENDS Integers, Sequences, FiniteSets, TLC

VARIABLES
    redis,      \* the Redis keyspace of the enhanced adapter: key -> record
    now,        \* wall clock, in seconds (Date.now() is now * 1000)
    stats,      \* Redis.stats: hits, misses, sets, deletes, errors
    enableCompression, \* Redis.enableCompression (fixed at construction)
    call,       \* history: the last operation and its arguments
    ret,        \* history: what the last operation returned
    mredis,     \* the Redis keyspace of RedisAdapter (SpecManager)
    mstats,     \* the legacy manager's counters: hits, misses, errors
    mcall,      \* history: the last manager operation and its arguments
    mret,       \* history: what the last manager operation returned / raised
    listeners,  \* the events that have a throwing listener registered (Cache.on)
    caseSensitive, \* Cache.caseSensitive (static in manager.ts, a field in the enhanced Cache)
    pipe,       \* the commands queued on the Pipeline object, oldest first
    flight,     \* the manager's extendTTL call that is suspended on the backend
    deletes,    \* the manager's delete calls in progress, by caller
    store       \* Memory.store: key -> the entry saved under it

vars == <<redis, now, stats, enableCompression, call, ret, mredis, mstats, mcall,
          mret, listeners, caseSensitive, pipe, flight, deletes, store>>
evars == <<redis, now, stats, enableCompression, call, ret, pipe, store>>
mvars == <<mredis, mstats, mcall, mret, listeners, caseSensitive, flight, deletes>>

---------------------------------------------------------------------------
(* Bounds of the model *)

MaxTime == 2        \* the clock stops advancing here
TickSeconds == 2    \* seconds that pass in one step of the clock
MaxOps == 3         \* the statistics counters add up to at most this
MaxBatch == 2       \* longest key list / entry list of a batch call
MaxCounter == 5     \* a counter stays within -MaxCounter .. MaxCounter
MaxExtend == 1      \* extensions of the TTL that one stored entry receives
MaxQueue == 2       \* most commands queued on one pipeline

(* Program constants *)

DefaultTTL == 3600
MaxKeyLength == 250
CompressionThreshold == 1024

MaxValueSize == 512 * 1024

KeyPrefix == <<"c", "a", "c", "h", "e", ":">>
TagPrefix == <<"t", "a", "g", ":">>
AdapterNamespace == <<"c", "a", "c", "h", "e">>
DefaultNamespace == <<"d", "e", "f", "a", "u", "l", "t">>

---------------------------------------------------------------------------
(* Values.  A value is named by a string; what the code does with it       *)
(* depends on its JavaScript kind and on the length of its JSON text.       *)

Null == "null"                  \* JavaScript null
Undefined == "undefined"        \* JavaScript undefined
Cyclic == "cyclic"              \* an object that refers to itself
Shared == "shared"              \* an acyclic object with one child referenced twice

\* 0, a 2000-character string, a 600 KiB string: values JSON has a text for
JsonValues == {"zero", "big", "huge"}

\* the number NaN, which JSON.stringify writes as null
NaN == "nan"

\* the value JSON.parse reads from the text JSON.stringify wrote for v
JSONRoundTrip(v) == IF v = NaN THEN Null ELSE v

\* a JSON.stringify that throws on nothing
SerializableAny(v) == TRUE

\* JSON.stringify throws on a cyclic structure
Serializable(v) == v # Cyclic

\* Length of JSON.stringify(v) for the serializable values
JSONLength(v) ==
    CASE v = "zero" -> 1
      [] v = NaN -> 4
      [] v = "big" -> 2002
      [] v = "huge" -> (600 * 1024) + 2
      [] v = Shared -> 21
      [] OTHER -> 0

---------------------------------------------------------------------------
(* Keys and namespaces *)

LongKey == [i \in 1..MaxKeyLength |-> "x"]

Keys == {<<"k">>, <<"b", ":", "k">>, LongKey}

\* options.namespace: absent (<<>>) or given
NamespaceOptions == {<<>>, DefaultNamespace \o <<":", "b">>}

Tags == {<<"t">>}
TagOptions == {{}, {<<"t">>}}

\* options.ttl: absent (0), or a number of seconds
TtlOptions == {0, 1}

ToLower(c) ==
    CASE c = "K" -> "k"
      [] c = "B" -> "b"
      [] c = "A" -> "a"
      [] c = "X" -> "x"
      [] OTHER -> c

\* Cache.normalizeKey: the key as given under the case-sensitive policy and
\* its lower case otherwise
NormalizeKey(key) ==
    IF caseSensitive THEN key ELSE [i \in 1..Len(key) |-> ToLower(key[i])]

\* Cache.*: cacheOptions = { namespace: this.defaultNamespace, ...options }
CacheNamespace(nsOpt) == IF nsOpt = <<>> THEN DefaultNamespace ELSE nsOpt

\* Redis.buildKey: the physical key, or a throw when it is too long
BuildKey(key, namespace) ==
    LET ns == IF namespace = <<>> THEN AdapterNamespace ELSE namespace
        fullKey == KeyPrefix \o ns \o <<":">> \o key
    IN  IF Len(fullKey) > MaxKeyLength
        THEN [ok |-> FALSE, key |-> <<>>]
        ELSE [ok |-> TRUE, key |-> fullKey]

\* Redis.buildTagKey
BuildTagKey(tag) == TagPrefix \o tag

---------------------------------------------------------------------------
(* The value codec of the enhanced adapter *)

\* JSON.stringify of a CacheEntry: an undefined data member is left out
\* of the text; length is the data's text plus the envelope's members
EntryText(entry) ==
    [data |-> IF entry.data = Undefined THEN {} ELSE {JSONRoundTrip(entry.data)},
     createdAt |-> entry.createdAt,
     expiresAt |-> entry.expiresAt]

EntryLength(entry) ==
    (IF entry.data = Undefined THEN 0 ELSE 8 + JSONLength(entry.data))
        + 27 + (IF entry.expiresAt = {} THEN 0 ELSE 27)

\* Redis.compress / Redis.decompress: gzip and gunzip (the base64 text of
\* the buffer stands for the buffer)
Compress(data) == [gzip |-> data]

Decompress(data) == data.gzip

\* a serializeValue that compresses whatever the per-call option says
SerializeValueIgnoringOption(entry, compression, enabled) ==
    IF ~Serializable(entry.data)
    THEN [ok |-> FALSE]
    ELSE IF EntryLength(entry) > MaxValueSize
    THEN [ok |-> FALSE]
    ELSE IF enabled /\ EntryLength(entry) > CompressionThreshold
    THEN [ok |-> TRUE, text |-> [marker |-> "__compressed__",
                                 body |-> Compress(EntryText(entry))]]
    ELSE [ok |-> TRUE, text |-> [marker |-> "", body |-> EntryText(entry)]]

\* Redis.serializeValue: the stored string, or a throw; compression is
\* options.compression !== false
SerializeValue(entry, compression, enabled) ==
    IF ~Serializable(entry.data)
    THEN [ok |-> FALSE]
    ELSE IF EntryLength(entry) > MaxValueSize
    THEN [ok |-> FALSE]
    ELSE IF enabled /\ compression /\ EntryLength(entry) > CompressionThreshold
    THEN [ok |-> TRUE, text |-> [marker |-> "__compressed__",
                                 body |-> Compress(EntryText(entry))]]
    ELSE [ok |-> TRUE, text |-> [marker |-> "", body |-> EntryText(entry)]]

\* JSON.stringify(value) as Pipeline.set stores it: the text of the bare
\* value, without the envelope.  The text of the number 0 is the text a
\* counter at 0 has.
RawText(value) ==
    IF value = "zero" THEN [marker |-> "", number |-> 0]
    ELSE [marker |-> "", raw |-> JSONRoundTrip(value)]

\* the stored text is the JSON text null
ParsesToNull(text) == "raw" \in DOMAIN text /\ text.raw = Null

\* Redis.deserializeValue: strips the marker when present, then JSON.parse;
\* a member missing from the text reads as undefined.  The text of a counter
\* (written by INCRBY / DECRBY) parses to a number, and the text of a bare
\* value to that value; their data and expiresAt members read as undefined.
DeserializeValue(text) ==
    IF "number" \in DOMAIN text \/ "raw" \in DOMAIN text
    THEN [data |-> Undefined, createdAt |-> 0, expiresAt |-> {}]
    ELSE LET body == IF text.marker = "__compressed__" THEN Decompress(text.body)
                     ELSE text.body
         IN  [data |-> IF body.data = {} THEN Undefined
                       ELSE CHOOSE v \in body.data : TRUE,
              createdAt |-> body.createdAt,
              expiresAt |-> body.expiresAt]

---------------------------------------------------------------------------
(* The Redis server: one keyspace of string values and sets, each key with  *)
(* an optional expiry time (absolute, in seconds).                          *)

DateNow(t) == t * 1000

Present(db, k) == k \in DOMAIN db

Remove(db, ks) == [k \in DOMAIN db \ ks |-> db[k]]

Put(db, k, rec) == [x \in DOMAIN db \cup {k} |-> IF x = k THEN rec ELSE db[x]]

\* SET / SETEX: ttl <= 0 stands for SET without expiry.  wtags and wns are
\* history kept beside the value: the tags and the namespace the writing
\* call carried.
RedisSetString(db, k, text, ttl, t, wtags, wns) ==
    Put(db, k, [type |-> "string", val |-> text,
                exp |-> IF ttl > 0 THEN {t + ttl} ELSE {},
                wtags |-> wtags, wns |-> wns])

\* KEYS pattern: glob matching, * for any run of characters and ? for one
RECURSIVE GlobMatch(_, _)
GlobMatch(p, str) ==
    IF p = <<>> THEN str = <<>>
    ELSE IF Head(p) = "*"
    THEN GlobMatch(Tail(p), str) \/ (str # <<>> /\ GlobMatch(p, Tail(str)))
    ELSE /\ str # <<>>
         /\ (Head(p) = "?" \/ Head(p) = Head(str))
         /\ GlobMatch(Tail(p), Tail(str))

RedisKeys(db, pattern) == {k \in DOMAIN db : GlobMatch(pattern, k)}

\* the set of elements of a list
Range(seq) == {seq[i] : i \in 1..Len(seq)}

\* SADD, then EXPIRE when ttl > 0
RedisSAdd(db, k, member, ttl, t) ==
    LET old == IF Present(db, k) THEN db[k]
               ELSE [type |-> "set", members |-> {}, exp |-> {}]
    IN  Put(db, k, [type |-> "set", members |-> old.members \cup {member},
                    exp |-> IF ttl > 0 THEN {t + ttl} ELSE old.exp])

\* SMEMBERS
RedisSMembers(db, k) ==
    IF Present(db, k) /\ db[k].type = "set" THEN db[k].members ELSE {}

\* the key holds the decimal text of an integer
IsCounter(db, k) ==
    Present(db, k) /\ db[k].type = "string" /\ "number" \in DOMAIN db[k].val

\* INCRBY (DECRBY is INCRBY of the negated amount): a missing key counts
\* from 0 and is created without expiry; a value that is not an integer is
\* an error.  wns is history, as in RedisSetString.
RedisIncrBy(db, k, amount, wns) ==
    IF ~Present(db, k)
    THEN [ok |-> TRUE, value |-> amount,
          db |-> Put(db, k, [type |-> "string",
                             val |-> [marker |-> "", number |-> amount],
                             exp |-> {}, wtags |-> {}, wns |-> wns])]
    ELSE IF IsCounter(db, k)
    THEN [ok |-> TRUE, value |-> db[k].val.number + amount,
          db |-> [db EXCEPT ![k].val.number = @ + amount]]
    ELSE [ok |-> FALSE, value |-> 0, db |-> db]

\* keys the server has expired by time t
ExpiredAt(db, t) == {k \in DOMAIN db : \E e \in db[k].exp : e <= t}

---------------------------------------------------------------------------
(* Statistics of the enhanced adapter *)

Bump(st, field, n) == [st EXCEPT ![field] = @ + n]

StatsOk(st) == st.hits + st.misses + st.sets + st.deletes + st.errors <= MaxOps

---------------------------------------------------------------------------
(* The enhanced Redis adapter.  Each operator computes, from the keyspace,  *)
(* the statistics and the clock, what one call leaves behind and returns.   *)
(* fail = TRUE stands for the Redis client rejecting the call's backend     *)
(* command (connection lost), which every method catches.                   *)

\* options.ttl || this.defaultTTL
EffectiveTTL(ttl) == IF ttl = 0 THEN DefaultTTL ELSE ttl

\* the envelope built by set / mset
MakeEntry(value, ttl, t) ==
    [data |-> value,
     createdAt |-> DateNow(t),
     expiresAt |-> IF ttl > 0 THEN {DateNow(t) + (ttl * 1000)} ELSE {}]

\* the commands set / mset queue on the pipeline for one key: the value
\* write, and for each tag SADD of the physical key plus EXPIRE
RECURSIVE QueueTags(_, _, _, _, _)
QueueTags(db, tags, redisKey, ttl, t) ==
    IF tags = {} THEN db
    ELSE LET tag == CHOOSE x \in tags : TRUE
         IN  QueueTags(RedisSAdd(db, BuildTagKey(tag), redisKey, ttl, t),
                       tags \ {tag}, redisKey, ttl, t)

QueueWrite(db, redisKey, text, ttl, opts, t) ==
    QueueTags(RedisSetString(db, redisKey, text, ttl, t, opts.tags, opts.namespace),
              opts.tags, redisKey, ttl, t)

\* Redis.set
RedisSet(db, st, t, enabled, key, value, opts, fail) ==
    LET bk == BuildKey(key, opts.namespace)
        ttl == EffectiveTTL(opts.ttl)
        ser == SerializeValue(MakeEntry(value, ttl, t), opts.compression, enabled)
    IN  IF ~bk.ok \/ ~ser.ok \/ fail
        THEN [db |-> db, stats |-> Bump(st, "errors", 1), ret |-> FALSE]
        ELSE [db |-> QueueWrite(db, bk.key, ser.text, ttl, opts, t),
              stats |-> Bump(st, "sets", 1), ret |-> TRUE]

\* the expiration check of get / mget on a deserialized envelope
EntryExpired(entry, t) == \E e \in entry.expiresAt : e < DateNow(t)

\* a get that takes falsy data for a miss
RedisGetFalsy(db, st, t, key, opts, fail) ==
    LET bk == BuildKey(key, opts.namespace)
    IN  IF ~bk.ok \/ fail \/ (Present(db, bk.key) /\ db[bk.key].type # "string")
        THEN [db |-> db, stats |-> Bump(st, "errors", 1), ret |-> Null]
        ELSE IF ~Present(db, bk.key)
                \/ DeserializeValue(db[bk.key].val).data = "zero"
        THEN [db |-> db, stats |-> Bump(st, "misses", 1), ret |-> Null]
        ELSE LET entry == DeserializeValue(db[bk.key].val)
             IN  IF EntryExpired(entry, t)
                 THEN [db |-> Remove(db, {bk.key}),
                       stats |-> Bump(st, "misses", 1), ret |-> Null]
                 ELSE [db |-> db, stats |-> Bump(st, "hits", 1), ret |-> entry.data]

\* Redis.get (includeMetadata not set); reading entry.expiresAt of a text
\* that parsed to null throws into the catch.  failAt names the backend
\* command the client rejects: 0 none, 1 the GET, 2 the DEL that cleans up
\* an expired entry, which get awaits inside its try block after counting
\* the miss.
RedisGetAt(db, st, t, key, opts, failAt) ==
    LET bk == BuildKey(key, opts.namespace)
    IN  IF ~bk.ok \/ failAt = 1
           \/ (Present(db, bk.key) /\ db[bk.key].type # "string")
           \/ (Present(db, bk.key) /\ ParsesToNull(db[bk.key].val))
        THEN [db |-> db, stats |-> Bump(st, "errors", 1), ret |-> Null]
        ELSE IF ~Present(db, bk.key)
        THEN [db |-> db, stats |-> Bump(st, "misses", 1), ret |-> Null]
        ELSE LET entry == DeserializeValue(db[bk.key].val)
             IN  IF EntryExpired(entry, t)
                 THEN IF failAt = 2
                      THEN [db |-> db,
                            stats |-> Bump(Bump(st, "misses", 1), "errors", 1),
                            ret |-> Null]
                      ELSE [db |-> Remove(db, {bk.key}),
                            stats |-> Bump(st, "misses", 1), ret |-> Null]
                 ELSE [db |-> db, stats |-> Bump(st, "hits", 1), ret |-> entry.data]

\* Redis.get with the backend answering (fail = FALSE) or rejecting the GET
RedisGet(db, st, t, key, opts, fail) ==
    RedisGetAt(db, st, t, key, opts, IF fail THEN 1 ELSE 0)

\* Redis.expire: EXPIRE returns 1 when the key exists
RedisExpire(db, st, t, key, ttl, opts, fail) ==
    LET bk == BuildKey(key, opts.namespace)
    IN  IF ~bk.ok \/ fail
        THEN [db |-> db, stats |-> Bump(st, "errors", 1), ret |-> FALSE]
        ELSE IF ~Present(db, bk.key)
        THEN [db |-> db, stats |-> st, ret |-> FALSE]
        ELSE [db |-> IF ttl > 0
                     THEN [db EXCEPT ![bk.key].exp = {t + ttl}]
                     ELSE Remove(db, {bk.key}),
              stats |-> st, ret |-> TRUE]

\* an mget that hands out the data whatever the envelope's expiry
RECURSIVE MgetResultsStale(_, _, _)
MgetResultsStale(db, redisKeys, t) ==
    IF redisKeys = <<>> THEN <<>>
    ELSE LET k == Head(redisKeys)
             r == IF ~Present(db, k) \/ db[k].type # "string" THEN Null
                  ELSE DeserializeValue(db[k].val).data
         IN  <<r>> \o MgetResultsStale(db, Tail(redisKeys), t)

\* an mget that collects its results last key first
RECURSIVE MgetResultsReversed(_, _, _)
MgetResultsReversed(db, redisKeys, t) ==
    IF redisKeys = <<>> THEN <<>>
    ELSE LET k == Head(redisKeys)
             r == IF ~Present(db, k) \/ db[k].type # "string" THEN Null
                  ELSE LET entry == DeserializeValue(db[k].val)
                       IN  IF EntryExpired(entry, t) THEN Null ELSE entry.data
         IN  MgetResultsReversed(db, Tail(redisKeys), t) \o <<r>>

\* Redis.mget: MGET, then the envelope of each value is checked in turn; an
\* expired one yields null and its key is deleted
RECURSIVE MgetResults(_, _, _)
MgetResults(db, redisKeys, t) ==
    IF redisKeys = <<>> THEN <<>>
    ELSE LET k == Head(redisKeys)
             r == IF ~Present(db, k) \/ db[k].type # "string" THEN Null
                  ELSE LET entry == DeserializeValue(db[k].val)
                       IN  IF EntryExpired(entry, t) THEN Null ELSE entry.data
         IN  <<r>> \o MgetResults(db, Tail(redisKeys), t)

MgetExpired(db, redisKeys, t) ==
    {k \in Range(redisKeys) :
        /\ Present(db, k)
        /\ db[k].type = "string"
        /\ EntryExpired(DeserializeValue(db[k].val), t)}

Count(seq, x) == Cardinality({i \in 1..Len(seq) : seq[i] = x})

\* failAt: 0 none, 1 the MGET, 2 the DELs that clean up expired entries,
\* which mget issues without await and with their rejection swallowed
RedisMgetAt(db, st, t, keys, opts, failAt) ==
    LET built == [i \in 1..Len(keys) |-> BuildKey(keys[i], opts.namespace)]
    IN  IF (\E i \in 1..Len(keys) : ~built[i].ok) \/ failAt = 1 \/ keys = <<>>
        THEN [db |-> db, stats |-> Bump(st, "errors", 1),
              ret |-> [i \in 1..Len(keys) |-> Null]]
        ELSE LET redisKeys == [i \in 1..Len(keys) |-> built[i].key]
                 results == MgetResults(db, redisKeys, t)
                 misses == Count(results, Null)
             IN  [db |-> IF failAt = 2 THEN db
                         ELSE Remove(db, MgetExpired(db, redisKeys, t)),
                  stats |-> Bump(Bump(st, "misses", misses),
                                 "hits", Len(keys) - misses),
                  ret |-> results]

RedisMget(db, st, t, keys, opts, fail) ==
    RedisMgetAt(db, st, t, keys, opts, IF fail THEN 1 ELSE 0)

\* Redis.mset: every entry is serialized and queued, then the pipeline is
\* executed; a throw while queueing leaves the pipeline unexecuted
RECURSIVE MsetQueue(_, _, _, _, _, _)
MsetQueue(db, entries, todo, opts, enabled, t) ==
    IF todo = {} THEN [ok |-> TRUE, db |-> db]
    ELSE LET key == CHOOSE k \in todo : TRUE
             bk == BuildKey(key, opts.namespace)
             ttl == EffectiveTTL(opts.ttl)
             ser == SerializeValue(MakeEntry(entries[key], ttl, t),
                                   opts.compression, enabled)
         IN  IF ~bk.ok \/ ~ser.ok THEN [ok |-> FALSE, db |-> db]
             ELSE MsetQueue(QueueWrite(db, bk.key, ser.text, ttl, opts, t),
                            entries, todo \ {key}, opts, enabled, t)

RedisMset(db, st, t, enabled, entries, opts, fail) ==
    LET q == MsetQueue(db, entries, DOMAIN entries, opts, enabled, t)
    IN  IF ~q.ok \/ fail
        THEN [db |-> db, stats |-> Bump(st, "errors", 1), ret |-> FALSE]
        ELSE [db |-> q.db, stats |-> Bump(st, "sets", Cardinality(DOMAIN entries)),
              ret |-> TRUE]

\* an mdel that reports the number of keys it was given
RedisMdelRequested(db, st, keys, opts, fail) ==
    LET built == [i \in 1..Len(keys) |-> BuildKey(keys[i], opts.namespace)]
    IN  IF (\E i \in 1..Len(keys) : ~built[i].ok) \/ fail \/ keys = <<>>
        THEN [db |-> db, stats |-> Bump(st, "errors", 1), ret |-> 0]
        ELSE LET redisKeys == {built[i].key : i \in 1..Len(keys)}
             IN  [db |-> Remove(db, redisKeys),
                  stats |-> Bump(st, "deletes", Len(keys)), ret |-> Len(keys)]

\* Redis.mdel: DEL returns the number of keys it removed
RedisMdel(db, st, keys, opts, fail) ==
    LET built == [i \in 1..Len(keys) |-> BuildKey(keys[i], opts.namespace)]
    IN  IF (\E i \in 1..Len(keys) : ~built[i].ok) \/ fail \/ keys = <<>>
        THEN [db |-> db, stats |-> Bump(st, "errors", 1), ret |-> 0]
        ELSE LET redisKeys == {built[i].key : i \in 1..Len(keys)}
                 result == Cardinality(redisKeys \cap DOMAIN db)
             IN  [db |-> Remove(db, redisKeys),
                  stats |-> Bump(st, "deletes", result), ret |-> result]

\* Redis.increment / Redis.decrement: INCRBY (DECRBY), then EXPIRE when the
\* effective TTL is positive.  failAt names the backend command the client
\* rejects: 0 none, 1 the INCRBY, 2 the EXPIRE.  Both rethrow what they catch.
RedisCount(db, st, t, key, delta, opts, failAt) ==
    LET bk == BuildKey(key, opts.namespace)
        ttl == EffectiveTTL(opts.ttl)
        inc == RedisIncrBy(db, bk.key, delta, opts.namespace)
    IN  IF ~bk.ok \/ failAt = 1 \/ ~inc.ok
        THEN [db |-> db, stats |-> Bump(st, "errors", 1), ret |-> 0, threw |-> TRUE]
        ELSE IF ttl > 0 /\ failAt = 2
        THEN [db |-> inc.db, stats |-> Bump(st, "errors", 1), ret |-> 0,
              threw |-> TRUE]
        ELSE [db |-> IF ttl > 0 THEN [inc.db EXCEPT ![bk.key].exp = {t + ttl}]
                     ELSE inc.db,
              stats |-> st, ret |-> inc.value, threw |-> FALSE]

RedisIncrement(db, st, t, key, amount, opts, failAt) ==
    RedisCount(db, st, t, key, amount, opts, failAt)

RedisDecrement(db, st, t, key, amount, opts, failAt) ==
    RedisCount(db, st, t, key, 0 - amount, opts, failAt)

\* Redis.flushNamespace: KEYS prefix + namespace + ":*", then DEL of the list
RedisFlushNamespace(db, st, namespace, fail) ==
    LET pattern == KeyPrefix \o namespace \o <<":", "*">>
        keys == RedisKeys(db, pattern)
    IN  IF fail
        THEN [db |-> db, stats |-> Bump(st, "errors", 1), ret |-> FALSE]
        ELSE [db |-> Remove(db, keys),
              stats |-> Bump(st, "deletes", Cardinality(keys)), ret |-> TRUE]

\* a flush that also starts the statistics afresh
RedisFlushResetting(db, st, fail) ==
    IF fail THEN [db |-> db, stats |-> Bump(st, "errors", 1), ret |-> FALSE]
    ELSE [db |-> <<>>, stats |-> [f \in DOMAIN st |-> 0], ret |-> TRUE]

\* a flush of the default namespace only
RedisFlushScoped(db, st, fail) ==
    IF fail THEN [db |-> db, stats |-> Bump(st, "errors", 1), ret |-> FALSE]
    ELSE [db |-> Remove(db, RedisKeys(db, KeyPrefix \o DefaultNamespace \o <<":", "*">>)),
          stats |-> st, ret |-> TRUE]

\* Redis.flush: FLUSHDB
RedisFlush(db, st, fail) ==
    IF fail THEN [db |-> db, stats |-> Bump(st, "errors", 1), ret |-> FALSE]
    ELSE [db |-> <<>>, stats |-> st, ret |-> TRUE]

\* Redis.getSize: DBSIZE, or 0 when the client rejects
RedisGetSize(db, st, fail) ==
    [db |-> db, stats |-> st, ret |-> IF fail THEN 0 ELSE Cardinality(DOMAIN db)]

\* Redis.flushByTags: SMEMBERS of every tag, then one pipeline deleting the
\* tag sets and the collected keys
RedisFlushByTags(db, st, tags, fail) ==
    LET allKeys == UNION {RedisSMembers(db, BuildTagKey(tag)) : tag \in tags}
        tagKeys == {BuildTagKey(tag) : tag \in tags}
    IN  IF fail
        THEN [db |-> db, stats |-> Bump(st, "errors", 1), ret |-> FALSE]
        ELSE [db |-> Remove(db, tagKeys \cup allKeys),
              stats |-> Bump(st, "deletes", Cardinality(allKeys)), ret |-> TRUE]

---------------------------------------------------------------------------
(* The Pipeline of the enhanced adapter: set, get, del and expire queue one *)
(* Redis command each, exec sends the queue and maps the replies.           *)

\* Pipeline.set: SETEX (SET when the TTL is not positive) of the bare JSON
\* text; buildKey and JSON.stringify throw to the caller
PipelineSet(queue, key, value, opts) ==
    LET bk == BuildKey(key, opts.namespace)
        ttl == EffectiveTTL(opts.ttl)
    IN  IF ~bk.ok \/ ~Serializable(value) THEN [ok |-> FALSE, queue |-> queue]
        ELSE [ok |-> TRUE,
              queue |-> Append(queue, [cmd |-> "set", key |-> bk.key,
                                       text |-> RawText(value), ttl |-> ttl])]

\* Pipeline.get, Pipeline.del
PipelineKeyed(queue, cmd, key, opts) ==
    LET bk == BuildKey(key, opts.namespace)
    IN  IF ~bk.ok THEN [ok |-> FALSE, queue |-> queue]
        ELSE [ok |-> TRUE, queue |-> Append(queue, [cmd |-> cmd, key |-> bk.key])]

PipelineGet(queue, key, opts) == PipelineKeyed(queue, "get", key, opts)

PipelineDel(queue, key, opts) == PipelineKeyed(queue, "del", key, opts)

\* Pipeline.expire
PipelineExpire(queue, key, ttl, opts) ==
    LET bk == BuildKey(key, opts.namespace)
    IN  IF ~bk.ok THEN [ok |-> FALSE, queue |-> queue]
        ELSE [ok |-> TRUE,
              queue |-> Append(queue, [cmd |-> "expire", key |-> bk.key, ttl |-> ttl])]

\* what the server does with one queued command, and its reply (a set: the
\* empty set is the null reply)
RedisReply(db, c, t) ==
    CASE c.cmd = "set" ->
           [db |-> RedisSetString(db, c.key, c.text, c.ttl, t, {}, <<>>),
            result |-> {"OK"}]
      [] c.cmd = "get" ->
           [db |-> db,
            result |-> IF Present(db, c.key) /\ db[c.key].type = "string"
                       THEN {db[c.key].val} ELSE {}]
      [] c.cmd = "del" ->
           [db |-> Remove(db, {c.key}),
            result |-> IF Present(db, c.key) THEN {1} ELSE {0}]
      [] c.cmd = "expire" ->
           IF ~Present(db, c.key) THEN [db |-> db, result |-> {0}]
           ELSE [db |-> IF c.ttl > 0 THEN [db EXCEPT ![c.key].exp = {t + c.ttl}]
                        ELSE Remove(db, {c.key}),
                 result |-> {1}]

\* an exec that stops at the first command the server answers with an error
RECURSIVE PipelineExecAborting(_, _, _, _, _)
PipelineExecAborting(db, queue, i, failed, t) ==
    IF i > Len(queue) THEN [db |-> db, ret |-> <<>>]
    ELSE IF i \in failed
    THEN [db |-> db, ret |-> [j \in 1..(Len(queue) - i + 1) |-> {}]]
    ELSE LET r == RedisReply(db, queue[i], t)
             rest == PipelineExecAborting(r.db, queue, i + 1, failed, t)
         IN  [db |-> rest.db, ret |-> <<r.result>> \o rest.ret]

\* Pipeline.exec from command i on: the server runs the commands in the
\* order queued; failed holds the positions it answers with an error, and
\* results.map(([err, result]) => err ? null : result) puts null there
RECURSIVE PipelineExec(_, _, _, _, _)
PipelineExec(db, queue, i, failed, t) ==
    IF i > Len(queue) THEN [db |-> db, ret |-> <<>>]
    ELSE LET r == IF i \in failed THEN [db |-> db, result |-> {}]
                  ELSE RedisReply(db, queue[i], t)
             rest == PipelineExec(r.db, queue, i + 1, failed, t)
         IN  [db |-> rest.db, ret |-> <<r.result>> \o rest.ret]

---------------------------------------------------------------------------
(* The enhanced manager: normalizes the key, puts its default namespace     *)
(* under the caller's options and delegates to the adapter.                 *)

Options(nsOpt, ttl, tags, compression) ==
    [namespace |-> CacheNamespace(nsOpt), ttl |-> ttl, tags |-> tags,
     compression |-> compression]

ReadOptions(nsOpt) == Options(nsOpt, 0, {}, TRUE)

Apply(r, c) ==
    /\ StatsOk(r.stats)
    /\ redis' = r.db
    /\ stats' = r.stats
    /\ ret' = r.ret
    /\ call' = c
    /\ UNCHANGED <<now, enableCompression, mvars, pipe, store>>

\* what a physical key holds, as a reader would class it
Class(db, t, bk) ==
    IF ~bk.ok \/ ~Present(db, bk.key) THEN "absent"
    ELSE IF EntryExpired(DeserializeValue(db[bk.key].val), t) THEN "expired"
    ELSE "live"

PreOf(keys, nsOpt) ==
    [i \in 1..Len(keys) |->
        Class(redis, now, BuildKey(NormalizeKey(keys[i]), CacheNamespace(nsOpt)))]

\* the data a physical key holds, null when it holds none
Held(db, bk) ==
    IF ~bk.ok \/ ~Present(db, bk.key) THEN Null
    ELSE DeserializeValue(db[bk.key].val).data

HeldBy(keys, nsOpt) ==
    [i \in 1..Len(keys) |->
        Held(redis, BuildKey(NormalizeKey(keys[i]), CacheNamespace(nsOpt)))]

NormalizeKeys(keys) == [i \in 1..Len(keys) |-> NormalizeKey(keys[i])]

\* Cache.set
CacheSet(key, value, nsOpt, ttl, tags, compression, fail) ==
    Apply(RedisSet(redis, stats, now, enableCompression, NormalizeKey(key), value,
                   Options(nsOpt, ttl, tags, compression), fail),
          [op |-> "set", key |-> key, ns |-> nsOpt, value |-> value, ttl |-> ttl,
           at |-> now, compression |-> compression, fail |-> fail])

\* Cache.get
CacheGetAt(key, nsOpt, failAt) ==
    Apply(RedisGetAt(redis, stats, now, NormalizeKey(key), ReadOptions(nsOpt), failAt),
          [op |-> "get", key |-> key, ns |-> nsOpt, fail |-> failAt = 1,
           delFails |-> failAt = 2, pre |-> PreOf(<<key>>, nsOpt)])

CacheGet(key, nsOpt, fail) ==
    Apply(RedisGet(redis, stats, now, NormalizeKey(key), ReadOptions(nsOpt), fail),
          [op |-> "get", key |-> key, ns |-> nsOpt, fail |-> fail,
           delFails |-> FALSE, pre |-> PreOf(<<key>>, nsOpt)])

\* Cache.mget
CacheMgetAt(keys, nsOpt, failAt) ==
    Apply(RedisMgetAt(redis, stats, now, NormalizeKeys(keys), ReadOptions(nsOpt), failAt),
          [op |-> "mget", keys |-> keys, ns |-> nsOpt, fail |-> failAt = 1,
           delFails |-> failAt = 2, pre |-> PreOf(keys, nsOpt),
           held |-> HeldBy(keys, nsOpt)])

CacheMget(keys, nsOpt, fail) == CacheMgetAt(keys, nsOpt, IF fail THEN 1 ELSE 0)

\* Cache.mset
CacheMset(entries, nsOpt, ttl, tags, compression, fail) ==
    Apply(RedisMset(redis, stats, now, enableCompression,
                    [k \in {NormalizeKey(x) : x \in DOMAIN entries} |->
                        entries[CHOOSE x \in DOMAIN entries : NormalizeKey(x) = k]],
                    Options(nsOpt, ttl, tags, compression), fail),
          [op |-> "mset", entries |-> entries, ns |-> nsOpt])

\* Cache.delete
\* Redis.getKeysByTags: the union of SMEMBERS of the tag sets
RedisGetKeysByTags(db, st, tags, fail) ==
    IF fail THEN [db |-> db, stats |-> Bump(st, "errors", 1), ret |-> {}]
    ELSE [db |-> db, stats |-> st,
          ret |-> UNION {RedisSMembers(db, BuildTagKey(tag)) : tag \in tags}]

CacheDelete(key, nsOpt, fail) ==
    LET r == RedisMdel(redis, stats, <<NormalizeKey(key)>>, ReadOptions(nsOpt), fail)
    IN  Apply([r EXCEPT !.ret = (r.ret > 0)],
              [op |-> "delete", keys |-> <<key>>, ns |-> nsOpt, fail |-> fail,
               pre |-> PreOf(<<key>>, nsOpt)])

\* Cache.deleteMany
CacheDeleteMany(keys, nsOpt, fail) ==
    Apply(RedisMdel(redis, stats, NormalizeKeys(keys), ReadOptions(nsOpt), fail),
          [op |-> "deleteMany", keys |-> keys, ns |-> nsOpt, fail |-> fail,
           pre |-> PreOf(keys, nsOpt)])

\* Cache.flushNamespace: namespace || this.defaultNamespace
CacheFlushNamespace(nsOpt, fail) ==
    Apply(RedisFlushNamespace(redis, stats, CacheNamespace(nsOpt), fail),
          [op |-> "flushNamespace", ns |-> CacheNamespace(nsOpt)])

\* Cache.flushByTags
CacheFlushByTags(tags, fail) ==
    Apply(RedisFlushByTags(redis, stats, tags, fail),
          [op |-> "flushByTags", tags |-> tags])

\* Cache.flush; pre is history: the number of keys the backend held
CacheFlush(fail) ==
    Apply(RedisFlush(redis, stats, fail),
          [op |-> "flush", fail |-> fail, pre |-> Cardinality(DOMAIN redis)])

\* Cache.getSize
CacheGetSize(fail) ==
    Apply(RedisGetSize(redis, stats, fail), [op |-> "getSize", fail |-> fail])

\* Cache.expire
CacheExpire(key, ttl, nsOpt, fail) ==
    Apply(RedisExpire(redis, stats, now, NormalizeKey(key), ttl, ReadOptions(nsOpt), fail),
          [op |-> "expire", key |-> key, ns |-> nsOpt])

\* Cache.increment
CacheIncrement(key, amount, nsOpt, failAt) ==
    LET r == RedisIncrement(redis, stats, now, NormalizeKey(key), amount,
                            ReadOptions(nsOpt), failAt)
    IN  /\ r.ret <= MaxCounter
        /\ Apply(r, [op |-> "increment", key |-> key, ns |-> nsOpt,
                     amount |-> amount, failAt |-> failAt, threw |-> r.threw])

\* Cache.decrement
CacheDecrement(key, amount, nsOpt, failAt) ==
    LET r == RedisDecrement(redis, stats, now, NormalizeKey(key), amount,
                            ReadOptions(nsOpt), failAt)
    IN  /\ 0 - r.ret <= MaxCounter
        /\ Apply(r, [op |-> "decrement", key |-> key, ns |-> nsOpt,
                     amount |-> amount, failAt |-> failAt, threw |-> r.threw])

\* a call on the pipeline that queues (or throws): nothing reaches Redis
Queue(q, c) ==
    /\ Len(pipe) < MaxQueue
    /\ pipe' = q.queue
    /\ call' = c
    /\ ret' = IF q.ok THEN "this" ELSE "throws"
    /\ UNCHANGED <<redis, now, stats, enableCompression, mvars, store>>

\* the options of a call made on the adapter itself
AdapterOptions(ttl) == [namespace |-> <<>>, ttl |-> ttl, tags |-> {}, compression |-> TRUE]

\* cache.pipeline().set / get / del / expire
CachePipelineSet(key, value, ttl) ==
    Queue(PipelineSet(pipe, key, value, AdapterOptions(ttl)),
          [op |-> "pipeline.set", key |-> key, value |-> value])

CachePipelineGet(key) ==
    Queue(PipelineGet(pipe, key, AdapterOptions(0)), [op |-> "pipeline.get", key |-> key])

CachePipelineDel(key) ==
    Queue(PipelineDel(pipe, key, AdapterOptions(0)), [op |-> "pipeline.del", key |-> key])

CachePipelineExpire(key, ttl) ==
    Queue(PipelineExpire(pipe, key, ttl, AdapterOptions(0)),
          [op |-> "pipeline.expire", key |-> key])

\* cache.pipeline().exec
CachePipelineExec(failed) ==
    LET r == PipelineExec(redis, pipe, 1, failed, now)
    IN  /\ redis' = r.db
        /\ ret' = r.ret
        /\ call' = [op |-> "exec", queued |-> pipe, failed |-> failed]
        /\ pipe' = <<>>
        /\ UNCHANGED <<now, stats, enableCompression, mvars, store>>

\* Redis.set and Redis.get called on the adapter itself
DirectSet(key, value, ttl, fail) ==
    Apply(RedisSet(redis, stats, now, enableCompression, key, value,
                   AdapterOptions(ttl), fail),
          [op |-> "adapter.set", key |-> key, value |-> value, fail |-> fail])

DirectGet(key, fail) ==
    Apply(RedisGet(redis, stats, now, key, AdapterOptions(0), fail),
          [op |-> "adapter.get", key |-> key, fail |-> fail,
           stored |-> LET bk == BuildKey(key, <<>>)
                      IN  IF bk.ok /\ Present(redis, bk.key) /\ redis[bk.key].type = "string"
                          THEN {redis[bk.key].val} ELSE {}])

\* the hash a physical key holds, none when the key is absent
HashFields(db, k) == IF Present(db, k) THEN db[k].fields ELSE <<>>

\* a key of another type than hash: HGET and HSET answer WRONGTYPE
NotAHash(db, k) == Present(db, k) /\ db[k].type # "hash"

\* Redis.load: with a hash, HGET and the check of the saved time against
\* ttl, a throw of buildKey or of HGET leaving the method; without a hash,
\* this.get(key)
RedisLoad(db, st, t, key, ttl, hash, fail) ==
    LET bk == BuildKey(key, <<>>)
    IN  IF hash = <<>> THEN RedisGet(db, st, t, key, AdapterOptions(0), fail)
        ELSE IF ~bk.ok \/ fail \/ NotAHash(db, bk.key)
        THEN [db |-> db, stats |-> st, ret |-> [rejected |-> TRUE]]
        ELSE IF ~Present(HashFields(db, bk.key), hash)
        THEN [db |-> db, stats |-> Bump(st, "misses", 1), ret |-> Null]
        ELSE LET cache == HashFields(db, bk.key)[hash]
             IN  IF cache.time + ttl > t
                 THEN [db |-> db, stats |-> Bump(st, "hits", 1), ret |-> cache.data]
                 ELSE [db |-> db, stats |-> Bump(st, "misses", 1), ret |-> Null]

\* Redis.save: with a hash, HSET of { time, data }; without, this.set(key, data)
RedisSave(db, st, t, enabled, key, data, hash, fail) ==
    LET bk == BuildKey(key, <<>>)
    IN  IF key = <<>> \/ data \in {Undefined, Null}
        THEN [db |-> db, stats |-> st, ret |-> FALSE]
        ELSE IF hash = <<>>
        THEN RedisSet(db, st, t, enabled, key, data, AdapterOptions(0), fail)
        ELSE IF ~bk.ok \/ fail \/ NotAHash(db, bk.key)
        THEN [db |-> db, stats |-> Bump(st, "errors", 1), ret |-> FALSE]
        ELSE [db |-> Put(db, bk.key,
                         [type |-> "hash",
                          fields |-> Put(HashFields(db, bk.key), hash,
                                         [time |-> t, data |-> JSONRoundTrip(data)]),
                          exp |-> IF Present(db, bk.key) THEN db[bk.key].exp ELSE {},
                          wtags |-> {}, wns |-> <<>>]),
              stats |-> Bump(st, "sets", 1), ret |-> TRUE]

\* Cache.load and Cache.save over the Redis adapter
CacheLoad(key, ttl, hash, fail) ==
    Apply(RedisLoad(redis, stats, now, NormalizeKey(key), ttl, NormalizeKey(hash), fail),
          [op |-> "load", key |-> key, ttl |-> ttl, hash |-> hash, fail |-> fail])

CacheSave(key, data, hash, fail) ==
    Apply(RedisSave(redis, stats, now, enableCompression, NormalizeKey(key), data,
                    NormalizeKey(hash), fail),
          [op |-> "save", key |-> key, data |-> data, hash |-> hash, fail |-> fail])

\* Cache.setCaseSensitivity of the enhanced manager
CacheSetCaseSensitivity(value) ==
    /\ caseSensitive # value
    /\ caseSensitive' = value
    /\ call' = [op |-> "setCaseSensitivity", value |-> value]
    /\ ret' = value
    /\ UNCHANGED <<redis, now, stats, enableCompression, pipe, mredis, mstats,
                   mcall, mret, listeners, flight, deletes, store>>

---------------------------------------------------------------------------
(* The Memory adapter, which has the legacy methods only, and the manager   *)
(* over it.  False is JavaScript false where a value is expected.           *)

False == "false"

\* the values JavaScript takes for false in !data
Falsy(data) == data \in {"zero", Null, Undefined, NaN, False}

\* Memory.load: the hash is not looked at
MemoryLoad(st, t, key, ttl, hash) ==
    IF key # <<>> /\ Present(st, key)
    THEN IF st[key].time + ttl > t THEN st[key].data ELSE False
    ELSE False

\* Memory.save: the hash is not looked at
MemorySave(st, t, key, data, hash) ==
    IF key = <<>> \/ Falsy(data) THEN [store |-> st, ret |-> False]
    ELSE [store |-> Put(st, key, [time |-> t, data |-> data]), ret |-> data]

\* k.startsWith(key)
StartsWith(k, key) == Len(key) <= Len(k) /\ SubSeq(k, 1, Len(key)) = key

\* Memory.list: the stored keys that start with key
MemoryList(st, key) == {k \in DOMAIN st : StartsWith(k, key)}

\* Memory.purge: the hash is not looked at
MemoryPurge(st, key, hash) ==
    IF key # <<>> /\ Present(st, key)
    THEN [store |-> Remove(st, {key}), ret |-> TRUE]
    ELSE [store |-> st, ret |-> FALSE]

\* the methods an adapter object has
MemoryMethods == {"load", "save", "list", "purge", "flush", "ping", "getSize", "getName"}

\* an isEnhancedAdapter that takes every adapter for an enhanced one
IsEnhancedAdapterAny(methods) == TRUE

\* Cache.isEnhancedAdapter: "set" in adapter && "get" in adapter
IsEnhancedAdapter(methods) == {"set", "get"} \subseteq methods

\* a promise rejected, or a throw, with an Error of this message
RejectedWith(message) == [rejected |-> TRUE, message |-> message]

\* the methods of Cache that start with the isEnhancedAdapter check
EnhancedMethods ==
    {"set", "get", "mget", "mset", "delete", "deleteMany", "exists", "expire",
     "ttl", "increment", "decrement", "flushNamespace", "flushByTags",
     "getStats", "getKeysByNamespace", "getKeysByTags", "pipeline"}

\* what the check at the head of an enhanced method does on an adapter with
\* these methods; past the check, calling a method the adapter lacks is a
\* TypeError
EnhancedGuard(methods, method) ==
    IF ~IsEnhancedAdapter(methods)
    THEN RejectedWith(IF method = "pipeline" THEN "Pipeline requires an EnhancedAdapter"
                      ELSE "Enhanced methods require an EnhancedAdapter")
    ELSE RejectedWith("this.adapter." \o method \o " is not a function")

\* a call of the manager over the Memory adapter
BasicApply(st, r, c) ==
    /\ store' = st
    /\ ret' = r
    /\ call' = c
    /\ UNCHANGED <<redis, now, stats, enableCompression, pipe, mvars>>

\* Cache.save / load / list / purge / flush over Memory
BasicSave(key, data, hash) ==
    LET r == MemorySave(store, now, NormalizeKey(key), data, NormalizeKey(hash))
    IN  BasicApply(r.store, r.ret,
                   [op |-> "save", key |-> key, data |-> data, hash |-> hash])

BasicLoad(key, ttl, hash) ==
    BasicApply(store,
               MemoryLoad(store, now, NormalizeKey(key), ttl, NormalizeKey(hash)),
               [op |-> "load", key |-> key, ttl |-> ttl, hash |-> hash])

BasicList(key) ==
    BasicApply(store, MemoryList(store, NormalizeKey(key)),
               [op |-> "list", key |-> key])

BasicPurge(key, hash) ==
    LET r == MemoryPurge(store, NormalizeKey(key), NormalizeKey(hash))
    IN  BasicApply(r.store, r.ret, [op |-> "purge", key |-> key, hash |-> hash])

BasicFlush == BasicApply(<<>>, TRUE, [op |-> "flush"])

\* an enhanced method called on the manager over Memory
BasicEnhanced(method) ==
    BasicApply(store, EnhancedGuard(MemoryMethods, method),
               [op |-> "enhanced", method |-> method])

\* Time passes; Memory drops nothing on its own
MemoryTick ==
    /\ now < MaxTime
    /\ now' = now + TickSeconds
    /\ UNCHANGED <<redis, stats, enableCompression, call, ret, pipe, store, mvars>>

\* Time passes by TickSeconds; the server drops the keys whose expiry is due
Tick ==
    /\ now < MaxTime
    /\ now' = now + TickSeconds
    /\ redis' = Remove(redis, ExpiredAt(redis, now + TickSeconds))
    /\ UNCHANGED <<stats, enableCompression, call, ret, mvars, pipe, store>>

---------------------------------------------------------------------------
(* The calls the model makes.  Every operation is called with every       *)
(* combination of the accepted inputs, and with a few calls that are       *)
(* rejected (a key that is too long, a value that is too large) or that    *)
(* meet a failing backend.                                                  *)

ValidKeys == Keys \ {LongKey}
StoredValues == {"zero", "big"}
ExpireTtls == {3}
NoNamespace == {<<>>}

\* set calls under the namespace options N with the tag options T, and the
\* rejected and failing ones
SetCalls(N, T) ==
    [key : ValidKeys, value : StoredValues, ns : N, ttl : TtlOptions,
     tags : T, compression : {TRUE}, fail : {FALSE}]
    \cup [key : {LongKey}, value : {"zero"}, ns : N, ttl : {0},
          tags : {{}}, compression : {TRUE}, fail : {FALSE}]
    \cup [key : {<<"k">>}, value : {"huge", "zero", NaN}, ns : {<<>>}, ttl : {0},
          tags : {{}}, compression : {TRUE}, fail : {FALSE}]
    \cup [key : {<<"k">>}, value : {"zero"}, ns : {<<>>}, ttl : {0},
          tags : {{}}, compression : {TRUE}, fail : {TRUE}]

GetCalls(N) ==
    [key : ValidKeys, ns : N, fail : {FALSE}]
    \cup [key : {LongKey}, ns : {<<>>}, fail : {FALSE}]
    \cup [key : {<<"k">>}, ns : {<<>>}, fail : {TRUE}]

\* key lists of at most MaxBatch keys, repeats allowed
KeyLists == UNION {[1..n -> ValidKeys] : n \in 0..MaxBatch}

KeyListCalls(N) ==
    [keys : KeyLists, ns : N, fail : {FALSE}]
    \cup [keys : {<<<<"k">>, LongKey>>}, ns : {<<>>}, fail : {FALSE}]
    \cup [keys : {<<<<"k">>, <<"b", ":", "k">>>>}, ns : {<<>>}, fail : {TRUE}]

\* entry objects of at most MaxBatch keys
EntrySets(K, V) ==
    UNION {[S -> V] : S \in {T \in SUBSET K : Cardinality(T) <= MaxBatch}}

MsetCalls(N, T) ==
    [entries : EntrySets(ValidKeys, StoredValues), ns : N,
     ttl : TtlOptions, tags : T, compression : {TRUE}, fail : {FALSE}]
    \cup [entries : {e \in EntrySets(Keys, StoredValues \cup {"huge"}) :
                        /\ Cardinality(DOMAIN e) = 2
                        /\ \E x \in DOMAIN e : e[x] = "zero" /\ x \in ValidKeys
                        /\ \E x \in DOMAIN e : e[x] = "huge" \/ x = LongKey},
          ns : {<<>>}, ttl : {0}, tags : {{}}, compression : {TRUE}, fail : {FALSE}]
    \cup [entries : {[x \in ValidKeys |-> "zero"]}, ns : {<<>>}, ttl : {0},
          tags : {{}}, compression : {TRUE}, fail : {TRUE}]

ExpireCalls(N) ==
    [key : ValidKeys, ttl : ExpireTtls, ns : N, fail : {FALSE}]
    \cup [key : {<<"k">>}, ttl : ExpireTtls, ns : {<<>>}, fail : {TRUE}]

\* The adapter is constructed with enableCompression: true, so that values
\* over the threshold take the compressed path; every other option has its
\* default.
Constructed(enabled) ==
    /\ redis = <<>>
    /\ now = 0
    /\ stats = [hits |-> 0, misses |-> 0, sets |-> 0, deletes |-> 0, errors |-> 0]
    /\ enableCompression = enabled
    /\ call = [op |-> "none"]
    /\ ret = Null
    /\ mredis = <<>>
    /\ mstats = [hits |-> 0, misses |-> 0, errors |-> 0]
    /\ mcall = [op |-> "none"]
    /\ mret = Null
    /\ listeners = {}
    /\ caseSensitive = FALSE
    /\ pipe = <<>>
    /\ flight = [phase |-> "idle"]
    /\ deletes = <<>>
    /\ store = <<>>

Init == Constructed(TRUE)

\* the adapter constructed with either value of enableCompression
InitCodec == \E enabled \in BOOLEAN : Constructed(enabled)

\* the steps of each operation, over a set of calls
Sets(C) == \E c \in C :
              CacheSet(c.key, c.value, c.ns, c.ttl, c.tags, c.compression, c.fail)
Gets(C) == \E c \in C : CacheGet(c.key, c.ns, c.fail)
Mgets(C) == \E c \in C : CacheMget(c.keys, c.ns, c.fail)
Msets(C) == \E c \in C :
               CacheMset(c.entries, c.ns, c.ttl, c.tags, c.compression, c.fail)
Deletes(C) == \E c \in C : CacheDelete(c.key, c.ns, c.fail)
DeleteManys(C) == \E c \in C : CacheDeleteMany(c.keys, c.ns, c.fail)
Expires(C) == \E c \in C : CacheExpire(c.key, c.ttl, c.ns, c.fail)
FlushNamespaces(N) ==
    \E nsOpt \in N, fail \in BOOLEAN : CacheFlushNamespace(nsOpt, fail)
FlushByTagss(T) == \E tags \in T, fail \in BOOLEAN : CacheFlushByTags(tags, fail)

\* the calls of each specification
PlainSetCalls == SetCalls(NoNamespace, {{}})
PlainGetCalls == GetCalls(NoNamespace)
PlainKeyListCalls == KeyListCalls(NoNamespace)
PlainMsetCalls == MsetCalls(NoNamespace, {{}})
PlainExpireCalls == ExpireCalls(NoNamespace)
NamespacedSetCalls == SetCalls(NamespaceOptions, {{}})
NamespacedGetCalls == GetCalls(NamespaceOptions)
TaggedSetCalls == SetCalls(NamespaceOptions, TagOptions)

\* single-key reads and writes, in two namespaces
Next ==
    \/ Sets(NamespacedSetCalls)
    \/ Gets(NamespacedGetCalls)
    \/ Tick
Spec == Init /\ [][Next]_vars

\* reads of entries whose expiry has been changed after the write
NextExpiry ==
    \/ Sets(PlainSetCalls)
    \/ Gets(PlainGetCalls)
    \/ Mgets(PlainKeyListCalls)
    \/ Expires(PlainExpireCalls)
    \/ Tick
SpecExpiry == Init /\ [][NextExpiry]_vars

\* the batch operations
NextBatch ==
    \/ Sets(PlainSetCalls)
    \/ Msets(PlainMsetCalls)
    \/ Mgets(PlainKeyListCalls)
    \/ Deletes(PlainGetCalls)
    \/ DeleteManys(PlainKeyListCalls)
    \/ Expires(PlainExpireCalls)
    \/ Tick
SpecBatch == Init /\ [][NextBatch]_vars

\* counters: a key stored as 0 or left fresh, counted up and down, and read
CounterSetCalls ==
    [key : {<<"k">>}, value : {"zero"}, ns : NoNamespace, ttl : {0},
     tags : {{}}, compression : {TRUE}, fail : {FALSE}]
CounterGetCalls == [key : {<<"k">>}, ns : NoNamespace, fail : BOOLEAN]
CounterCalls ==
    [key : {<<"k">>}, amount : {2, 5}, ns : NoNamespace, failAt : {0}]
    \cup [key : {<<"k">>}, amount : {5}, ns : NoNamespace, failAt : {1, 2}]

NextCounter ==
    \/ Sets(CounterSetCalls)
    \/ \E c \in CounterCalls : CacheIncrement(c.key, c.amount, c.ns, c.failAt)
    \/ \E c \in CounterCalls : CacheDecrement(c.key, c.amount, c.ns, c.failAt)
    \/ Gets(CounterGetCalls)
    \/ Deletes(CounterGetCalls)
    \/ Tick
SpecCounter == Init /\ [][NextCounter]_vars

\* one key written with and without a tag in two namespaces, read, deleted
\* and flushed in the three ways
StatsSetCalls ==
    [key : {<<"k">>}, value : {"zero"}, ns : NamespaceOptions, ttl : TtlOptions,
     tags : TagOptions, compression : {TRUE}, fail : BOOLEAN]
StatsGetCalls == [key : {<<"k">>}, ns : NamespaceOptions, fail : BOOLEAN]

NextStats ==
    \/ Sets(StatsSetCalls)
    \/ Gets(StatsGetCalls)
    \/ Deletes(StatsGetCalls)
    \/ FlushNamespaces(NamespaceOptions)
    \/ FlushByTagss({Tags})
    \/ \E fail \in BOOLEAN : CacheFlush(fail)
    \/ \E fail \in BOOLEAN : CacheGetSize(fail)
    \/ Tick
SpecStats == Init /\ [][NextStats]_vars

\* tagged writes in two namespaces, and the two flushes
NextFlush ==
    \/ Sets(TaggedSetCalls)
    \/ FlushNamespaces(NamespaceOptions)
    \/ FlushByTagss(SUBSET Tags)
    \/ Tick
SpecFlush == Init /\ [][NextFlush]_vars

---------------------------------------------------------------------------
(* The legacy manager (Cache of manager.ts) over RedisAdapter, on a         *)
(* keyspace of its own.  mfail = TRUE stands for the Redis client rejecting *)
(* the backend command, which every adapter method catches.                 *)

ManagerMaxKeyLength == 512
ManagerDefaultTTL == 3600

\* what a call of the manager hands back: a value, or a rejected promise
Returned(v) == [rejected |-> FALSE, value |-> v]
Rejected == [rejected |-> TRUE]

\* RedisAdapter.getKey; hash = <<>> stands for no hash
GetKey(key, hash) ==
    IF hash # <<>>
    THEN AdapterNamespace \o <<":">> \o key \o <<":">> \o hash
    ELSE AdapterNamespace \o <<":">> \o key

\* JSON.stringify of a value and JSON.parse of the text
Stringify(v) == [json |-> JSONRoundTrip(v)]
Parse(text) == text.json

\* RedisAdapter.set: SET key text [EX ttl]; true, or false when anything threw
AdapterSetHash(db, t, key, hash, value, ttl, fail) ==
    IF ~Serializable(value) \/ fail
    THEN [db |-> db, ret |-> FALSE]
    ELSE [db |-> Put(db, GetKey(key, hash),
                     [val |-> Stringify(value),
                      exp |-> IF ttl # 0 THEN {t + ttl} ELSE {}]),
          ret |-> TRUE]

AdapterSet(db, t, key, value, ttl, fail) ==
    AdapterSetHash(db, t, key, <<>>, value, ttl, fail)

\* RedisAdapter.get
AdapterGetHash(db, key, hash, fail) ==
    IF fail \/ ~Present(db, GetKey(key, hash)) THEN Null
    ELSE Parse(db[GetKey(key, hash)].val)

AdapterGet(db, key, fail) == AdapterGetHash(db, key, <<>>, fail)

\* RedisAdapter.delete: DEL, then true whatever DEL returned
AdapterDeleteHash(db, key, hash, fail) ==
    IF fail THEN [db |-> db, ret |-> FALSE]
    ELSE [db |-> Remove(db, {GetKey(key, hash)}), ret |-> TRUE]

AdapterDelete(db, key, fail) == AdapterDeleteHash(db, key, <<>>, fail)

\* RedisAdapter.mget
AdapterMget(db, keys, fail) ==
    [i \in 1..Len(keys) |->
        IF fail \/ keys = <<>> \/ ~Present(db, GetKey(keys[i], <<>>)) THEN Null
        ELSE Parse(db[GetKey(keys[i], <<>>)].val)]

\* RedisAdapter.mset: a pipeline of SETs, executed once all are queued
RECURSIVE AdapterMsetQueue(_, _, _, _, _)
AdapterMsetQueue(db, data, todo, ttl, t) ==
    IF todo = {} THEN [ok |-> TRUE, db |-> db]
    ELSE LET key == CHOOSE k \in todo : TRUE
         IN  IF ~Serializable(data[key]) THEN [ok |-> FALSE, db |-> db]
             ELSE AdapterMsetQueue(
                      Put(db, GetKey(key, <<>>),
                          [val |-> Stringify(data[key]),
                           exp |-> IF ttl # 0 THEN {t + ttl} ELSE {}]),
                      data, todo \ {key}, ttl, t)

AdapterMset(db, t, data, ttl, fail) ==
    LET q == AdapterMsetQueue(db, data, DOMAIN data, ttl, t)
    IN  IF ~q.ok \/ fail THEN [db |-> db, ret |-> FALSE]
        ELSE [db |-> q.db, ret |-> TRUE]

\* Cache.normalizeKey: a throw when the key is too long, else the key as
\* given under the case-sensitive policy and its lower case otherwise
ManagerNormalizeKey(key) ==
    IF Len(key) > ManagerMaxKeyLength THEN [ok |-> FALSE]
    ELSE [ok |-> TRUE,
          key |-> IF caseSensitive THEN key
                  ELSE [i \in 1..Len(key) |-> ToLower(key[i])]]

\* hash = hash ? this.normalizeKey(hash) : ""
NormalizeHash(hash) ==
    IF hash = <<>> THEN [ok |-> TRUE, key |-> <<>>] ELSE ManagerNormalizeKey(hash)

\* a validateValue that refuses nothing
ValidateValueNone(value) == TRUE

\* Cache.validateValue: undefined is refused; JSON.stringify throws on a
\* cycle; the WeakSet walk throws on any object met twice
ValidateValue(value) == value # Undefined /\ Serializable(value) /\ value # Shared

\* Cache.retry around an adapter method: the methods of RedisAdapter catch
\* every error themselves, so the first attempt returns and is the only one
Retry(result) == result

MApply(db, st, r, c) ==
    /\ st.hits + st.misses + st.errors <= MaxOps
    /\ mredis' = db
    /\ mstats' = st
    /\ mret' = r
    /\ mcall' = c
    /\ UNCHANGED <<evars, flight, deletes, listeners, caseSensitive>>

\* Cache.set; hash = <<>> stands for the hash left out or empty
ManagerSetHash(key, data, ttl, hash, fail) ==
    LET nk == ManagerNormalizeKey(key)
        nh == NormalizeHash(hash)
        c == [op |-> "set", key |-> key, hash |-> hash, value |-> data]
    IN  IF ~nk.ok \/ ~nh.ok THEN MApply(mredis, mstats, Rejected, c)
        ELSE IF ~ValidateValue(data)
        THEN MApply(mredis, Bump(mstats, "errors", 1), Rejected, c)
        ELSE LET r == Retry(AdapterSetHash(mredis, now, nk.key, nh.key, data,
                                           IF ttl = {} THEN ManagerDefaultTTL
                                           ELSE CHOOSE x \in ttl : TRUE, fail))
             IN  IF r.ret THEN MApply(r.db, mstats, Returned(TRUE), c)
                 ELSE MApply(r.db, Bump(mstats, "errors", 1), Rejected, c)

ManagerSet(key, data, ttl, fail) == ManagerSetHash(key, data, ttl, <<>>, fail)

\* Cache.get
ManagerGetHash(key, hash, fail) ==
    LET nk == ManagerNormalizeKey(key)
        nh == NormalizeHash(hash)
        c == [op |-> "get", key |-> key, hash |-> hash]
    IN  IF ~nk.ok \/ ~nh.ok THEN MApply(mredis, mstats, Rejected, c)
        ELSE LET result == Retry(AdapterGetHash(mredis, nk.key, nh.key, fail))
             IN  IF result # Null
                 THEN MApply(mredis, Bump(mstats, "hits", 1), Returned(result), c)
                 ELSE MApply(mredis, Bump(mstats, "misses", 1), Returned(Null), c)

ManagerGet(key, fail) == ManagerGetHash(key, <<>>, fail)

\* Cache.delete
ManagerDeleteHash(key, hash, fail) ==
    LET nk == ManagerNormalizeKey(key)
        nh == NormalizeHash(hash)
        c == [op |-> "delete", key |-> key, hash |-> hash]
    IN  IF ~nk.ok \/ ~nh.ok THEN MApply(mredis, mstats, Rejected, c)
        ELSE LET r == Retry(AdapterDeleteHash(mredis, nk.key, nh.key, fail))
             IN  MApply(r.db, mstats, Returned(r.ret), c)

ManagerDelete(key, fail) == ManagerDeleteHash(key, <<>>, fail)

\* Cache.setCaseSensitivity
SetCaseSensitivity(value) ==
    /\ caseSensitive # value
    /\ caseSensitive' = value
    /\ mcall' = [op |-> "setCaseSensitivity", value |-> value]
    /\ mret' = Null
    /\ UNCHANGED <<evars, flight, deletes, mredis, mstats, listeners>>

\* Cache.mget: the keys go to the adapter as given
ManagerMget(keys, fail) ==
    MApply(mredis, mstats, Returned(AdapterMget(mredis, keys, fail)),
           [op |-> "mget", keys |-> keys])

\* Cache.mset: every value is validated, then the adapter writes the batch
ManagerMset(data, fail) ==
    LET c == [op |-> "mset", data |-> data]
    IN  IF \E k \in DOMAIN data : ~ValidateValue(data[k])
        THEN MApply(mredis, Bump(mstats, "errors", 1), Rejected, c)
        ELSE LET r == AdapterMset(mredis, now, data, 0, fail)
             IN  IF r.ret THEN MApply(r.db, mstats, Returned(TRUE), c)
                 ELSE MApply(r.db, Bump(mstats, "errors", 1), Rejected, c)

\* Time passes; the server drops the keys whose expiry is due
ManagerTick ==
    /\ now < MaxTime
    /\ now' = now + TickSeconds
    /\ mredis' = Remove(mredis, ExpiredAt(mredis, now + TickSeconds))
    /\ UNCHANGED <<redis, stats, enableCompression, call, ret, mstats, mcall, mret,
                   listeners, caseSensitive, pipe, flight, deletes, store>>

\* The calls of the legacy manager: the accepted inputs in every
\* combination, and the rejected and failing ones
ManagerLongKey == [i \in 1..(ManagerMaxKeyLength + 1) |-> "x"]
InvalidValues == {Undefined, Cyclic, Shared}
ManagerTtls == {{}, {1}}

ManagerSetCalls ==
    [key : ValidKeys, data : StoredValues, ttl : ManagerTtls, fail : {FALSE}]
    \cup [key : ValidKeys, data : InvalidValues, ttl : {{}}, fail : {FALSE}]
    \cup [key : {ManagerLongKey}, data : {"zero"}, ttl : {{}}, fail : {FALSE}]
    \cup [key : {<<"k">>}, data : {"zero"}, ttl : {{}}, fail : {TRUE}]

ManagerKeyCalls ==
    [key : ValidKeys \cup {ManagerLongKey}, fail : {FALSE}]
    \cup [key : {<<"k">>}, fail : {TRUE}]

ManagerKeyListCalls ==
    [keys : KeyLists, fail : {FALSE}]
    \cup [keys : {<<<<"k">>, <<"b", ":", "k">>>>}, fail : {TRUE}]

ManagerMsetCalls ==
    [data : EntrySets(ValidKeys, StoredValues), fail : {FALSE}]
    \cup [data : {e \in EntrySets(ValidKeys, {"zero"} \cup InvalidValues) :
                     \E x \in DOMAIN e : e[x] \in InvalidValues},
          fail : {FALSE}]
    \cup [data : {[x \in ValidKeys |-> "zero"]}, fail : {TRUE}]

NextManager ==
    \/ \E c \in ManagerSetCalls : ManagerSet(c.key, c.data, c.ttl, c.fail)
    \/ \E c \in ManagerKeyCalls : ManagerGet(c.key, c.fail)
    \/ \E c \in ManagerKeyCalls : ManagerDelete(c.key, c.fail)
    \/ \E c \in ManagerKeyListCalls : ManagerMget(c.keys, c.fail)
    \/ \E c \in ManagerMsetCalls : ManagerMset(c.data, c.fail)
    \/ ManagerTick
SpecManager == Init /\ [][NextManager]_vars

\* hashed and unhashed entries under either case policy: the keys differ in
\* case or hold the separator, and one value is written per kind of call
HashKeys == {<<"k">>, <<"K">>, <<"k", ":", "b">>}
Hashes == {<<"b">>}
HashSetCalls ==
    [key : HashKeys, hash : {<<>>}, data : {"zero"}]
    \cup [key : {<<"k">>, <<"K">>}, hash : Hashes, data : {"big"}]
HashKeyCalls == [key : HashKeys, hash : {<<>>} \cup Hashes]

NextHash ==
    \/ \E c \in HashSetCalls : ManagerSetHash(c.key, c.data, {}, c.hash, FALSE)
    \/ \E c \in HashKeyCalls : ManagerGetHash(c.key, c.hash, FALSE)
    \/ \E c \in HashKeyCalls : ManagerDeleteHash(c.key, c.hash, FALSE)
    \/ ManagerMset([k \in {<<"K">>} |-> "big"], FALSE)
    \/ ManagerMget(<<<<"K">>>>, FALSE)
    \/ \E v \in BOOLEAN : SetCaseSensitivity(v)
SpecHash == Init /\ [][NextHash]_vars

---------------------------------------------------------------------------
(* The retrying manager (Cache of manager.ts, second revision) over a       *)
(* CacheAdapter whose methods reject when the client does, as those of the  *)
(* Redis adapter (redis.ts, second class) do.  It works on mredis.          *)
(* failures is the number of attempts of a call's backend operation that    *)
(* reject before one goes through.                                          *)

MaxRetries == 3

\* more failures than a call has attempts: the backend is down for the call
Forever == MaxRetries + 2

\* Redis.getKey of the throwing adapter: the namespace argument (the
\* manager's hash) when there is one, else the adapter's namespace
BackendKey(key, hash) ==
    (IF hash # <<>> THEN hash ELSE AdapterNamespace) \o <<":">> \o key

\* Redis.get
BackendGet(db, key, hash) ==
    IF Present(db, BackendKey(key, hash)) THEN Parse(db[BackendKey(key, hash)].val)
    ELSE Null

\* Redis.set: SET key text [EX ttl], true on OK.  ext is history: how often
\* the TTL of the entry has been extended.
BackendSet(db, t, key, value, ttl, hash) ==
    [db |-> Put(db, BackendKey(key, hash),
                [val |-> Stringify(value),
                 exp |-> IF ttl # 0 THEN {t + ttl} ELSE {},
                 ext |-> 0]),
     ret |-> TRUE]

\* a delete that never reports a removal
BackendDeleteSilent(db, key, hash) ==
    [db |-> Remove(db, {BackendKey(key, hash)}), ret |-> FALSE]

\* Redis.delete: DEL, true when a key was removed
BackendDelete(db, key, hash) ==
    [db |-> Remove(db, {BackendKey(key, hash)}),
     ret |-> Present(db, BackendKey(key, hash))]

\* Redis.keys
BackendKeys(db, pattern, hash) == RedisKeys(db, BackendKey(pattern, hash))

\* Redis.clear: KEYS namespace:*, then DEL of what it listed
BackendClear(db) ==
    [db |-> Remove(db, BackendKeys(db, <<"*">>, <<>>)), ret |-> TRUE]

\* Redis.size: DBSIZE
BackendSize(db) == Cardinality(DOMAIN db)

\* Redis.extendTTL: the remaining TTL plus ttl, when the key has one
BackendExtendTTL(db, t, key, ttl, hash) ==
    LET k == BackendKey(key, hash)
    IN  IF Present(db, k) /\ \E e \in db[k].exp : e - t > 0
        THEN [db |-> [db EXCEPT ![k].exp = {e + ttl : e \in @},
                                ![k].ext = @ + 1],
              ret |-> TRUE]
        ELSE [db |-> db, ret |-> FALSE]

\* Cache.retry: the loop from i = 0 while i <= retries; an attempt that
\* rejects is followed by a backoff sleep when i < retries
RECURSIVE RetryLoop(_, _, _)
RetryLoop(i, failures, sleeps) ==
    IF i > MaxRetries THEN [threw |-> TRUE, attempts |-> i, sleeps |-> sleeps]
    ELSE IF failures = 0
    THEN [threw |-> FALSE, attempts |-> i + 1, sleeps |-> sleeps]
    ELSE RetryLoop(i + 1, failures - 1,
                   IF i < MaxRetries THEN sleeps + 1 ELSE sleeps)

\* no backend operation was started
NoRun == [threw |-> FALSE, attempts |-> 0, sleeps |-> 0]

\* the backend work of two nested calls, added up
BothRuns(a, b) ==
    [attempts |-> a.attempts + b.attempts, sleeps |-> a.sleeps + b.sleeps]

\* an emitted event; key is <<>> for the events that carry none
Event(name, key) == [name |-> name, key |-> key]

\* what a call leaves behind: the keyspace, the counters, what it handed
\* back, the events it emitted in order, and its backend attempts and sleeps
Done(db, st, events, outcome, run) ==
    [db |-> db, st |-> st, ret |-> outcome, events |-> events,
     attempts |-> run.attempts, sleeps |-> run.sleeps, failed |-> FALSE]

\* a catch block that rethrows whatever the operation documents
CaughtRethrow(ls, db, st, events, outcome, run) ==
    [db |-> db, st |-> Bump(st, "errors", 1), ret |-> Rejected,
     events |-> Append(events, Event("error", <<>>)),
     attempts |-> run.attempts, sleeps |-> run.sleeps, failed |-> TRUE]

\* the catch block of an operation: emit("error", error), then the sentinel
\* or the rethrow.  The listener of the constructor counts the error; a
\* listener that throws makes emit throw, out of the catch block.
Caught(ls, db, st, events, outcome, run) ==
    [db |-> db, st |-> Bump(st, "errors", 1),
     ret |-> IF "error" \in ls THEN Rejected ELSE outcome,
     events |-> Append(events, Event("error", <<>>)),
     attempts |-> run.attempts, sleeps |-> run.sleeps, failed |-> TRUE]

\* eventEmitter.emit(ev) inside the try block, then return: a listener that
\* throws makes emit throw, into the catch block
Emitted(ls, db, st, ev, outcome, sentinel, run) ==
    IF ev.name \in ls THEN Caught(ls, db, st, <<ev>>, sentinel, run)
    ELSE Done(db, st, <<ev>>, outcome, run)

\* a get that counts every result as a hit
HitOrMissAlwaysHit(result) == "hit"

\* Cache.get: result !== null is a hit
HitOrMiss(result) == IF result # Null THEN "hit" ELSE "miss"

\* Cache.get after normalizeKey
GetBody(ls, db, st, key, hash, failures) ==
    LET run == RetryLoop(0, failures, 0)
        result == BackendGet(db, key, hash)
        kind == HitOrMiss(result)
    IN  IF run.threw THEN Caught(ls, db, st, <<>>, Returned(Null), run)
        ELSE Emitted(ls, db,
                     Bump(st, IF kind = "hit" THEN "hits" ELSE "misses", 1),
                     Event(kind, key), Returned(result), Returned(Null), run)

\* Cache.set after normalizeKey; JSON.stringify in the adapter throws on
\* every attempt when the value cannot be serialized
SetBody(ls, db, st, t, key, data, ttl, hash, failures) ==
    IF ~ValidateValue(data) THEN Caught(ls, db, st, <<>>, Rejected, NoRun)
    ELSE LET run == RetryLoop(0, IF Serializable(data) THEN failures
                                 ELSE Forever, 0)
             w == BackendSet(db, t, key, data,
                             IF ttl = {} THEN ManagerDefaultTTL
                             ELSE CHOOSE x \in ttl : TRUE, hash)
         IN  IF run.threw THEN Caught(ls, db, st, <<>>, Rejected, run)
             ELSE Emitted(ls, w.db, st, Event("set", key), Returned(TRUE),
                          Rejected, run)

\* Cache.delete after normalizeKey
DeleteBody(ls, db, st, key, hash, failures) ==
    LET run == RetryLoop(0, failures, 0)
        d == BackendDelete(db, key, hash)
    IN  IF run.threw THEN Caught(ls, db, st, <<>>, Returned(FALSE), run)
        ELSE IF d.ret
        THEN Emitted(ls, d.db, st, Event("delete", key), Returned(TRUE),
                     Returned(FALSE), run)
        ELSE Done(d.db, st, <<>>, Returned(FALSE), run)

\* Cache.clear
ClearBody(ls, db, st, failures) ==
    LET run == RetryLoop(0, failures, 0)
    IN  IF run.threw THEN Caught(ls, db, st, <<>>, Returned(FALSE), run)
        ELSE Emitted(ls, BackendClear(db).db, st, Event("clear", <<>>),
                     Returned(TRUE), Returned(FALSE), run)

\* Cache.keys after normalizeKey
KeysBody(ls, db, st, pattern, hash, failures) ==
    LET run == RetryLoop(0, failures, 0)
    IN  IF run.threw THEN Caught(ls, db, st, <<>>, Returned({}), run)
        ELSE Done(db, st, <<>>, Returned(BackendKeys(db, pattern, hash)), run)

\* Cache.getSize
GetSizeBody(ls, db, st, failures) ==
    LET run == RetryLoop(0, failures, 0)
    IN  IF run.threw THEN Caught(ls, db, st, <<>>, Returned(0), run)
        ELSE Done(db, st, <<>>, Returned(BackendSize(db)), run)

\* Cache.ping
PingBody(ls, db, st, failures) ==
    LET run == RetryLoop(0, failures, 0)
    IN  IF run.threw THEN Caught(ls, db, st, <<>>, Returned(FALSE), run)
        ELSE Done(db, st, <<>>, Returned(TRUE), run)

\* Cache.extendTTL after normalizeKey: the adapter's extendTTL, and when it
\* returns false the fallback: await this.get, then return this.set with the
\* new TTL.  The promise of set is returned without await, so what set
\* hands back or throws is the outcome, past the catch block of extendTTL.
\* fs lists the failures of the three backend operations.
ExtendTTLBody(ls, db, st, t, key, ttl, hash, fs) ==
    LET run == RetryLoop(0, fs[1], 0)
        x == BackendExtendTTL(db, t, key, ttl, hash)
        g == GetBody(ls, db, st, key, hash, fs[2])
        grun == BothRuns(run, g)
        s == SetBody(ls, g.db, g.st, t, key, g.ret.value, {ttl}, hash, fs[3])
        srun == BothRuns(grun, s)
    IN  IF run.threw THEN Caught(ls, db, st, <<>>, Returned(FALSE), run)
        ELSE IF x.ret
        THEN Emitted(ls, x.db, st, Event("set", key), Returned(TRUE),
                     Returned(FALSE), run)
        ELSE IF g.ret.rejected
        THEN Caught(ls, g.db, g.st, g.events, Returned(FALSE), grun)
        ELSE IF g.ret.value = Null
        THEN [Done(g.db, g.st, g.events, Returned(FALSE), grun)
                  EXCEPT !.failed = g.failed]
        ELSE [s EXCEPT !.events = g.events \o s.events,
                       !.attempts = srun.attempts, !.sleeps = srun.sleeps]

\* a call that normalizeKey refused: the throw leaves the method before
\* its try block
Refused(db, st) ==
    [db |-> db, st |-> st, ret |-> Rejected, events |-> <<>>,
     attempts |-> 0, sleeps |-> 0, failed |-> TRUE]

\* the step of a call: c is the call as made, r what it left behind
RetryApply(r, c) ==
    /\ r.st.hits + r.st.misses + r.st.errors <= MaxOps
    /\ \A k \in DOMAIN r.db : r.db[k].ext <= MaxExtend
    /\ mredis' = r.db
    /\ mstats' = r.st
    /\ mret' = r.ret
    /\ mcall' = c @@ [events |-> r.events, attempts |-> r.attempts,
                      sleeps |-> r.sleeps, failed |-> r.failed]
    /\ UNCHANGED <<evars, flight, deletes, listeners, caseSensitive>>

RetryingGet(key, hash, failures) ==
    LET nk == ManagerNormalizeKey(key)
        nh == NormalizeHash(hash)
        c == [op |-> "get", key |-> key, hash |-> hash, failures |-> failures]
    IN  IF ~nk.ok \/ ~nh.ok THEN RetryApply(Refused(mredis, mstats), c)
        ELSE RetryApply(GetBody(listeners, mredis, mstats, nk.key, nh.key,
                                failures), c)

RetryingSet(key, data, ttl, hash, failures) ==
    LET nk == ManagerNormalizeKey(key)
        nh == NormalizeHash(hash)
        c == [op |-> "set", key |-> key, hash |-> hash, value |-> data,
              failures |-> failures]
    IN  IF ~nk.ok \/ ~nh.ok THEN RetryApply(Refused(mredis, mstats), c)
        ELSE RetryApply(SetBody(listeners, mredis, mstats, now, nk.key, data,
                                ttl, nh.key, failures), c)

RetryingDelete(key, hash, failures) ==
    LET nk == ManagerNormalizeKey(key)
        nh == NormalizeHash(hash)
        c == [op |-> "delete", key |-> key, hash |-> hash,
              failures |-> failures]
    IN  IF ~nk.ok \/ ~nh.ok THEN RetryApply(Refused(mredis, mstats), c)
        ELSE RetryApply(DeleteBody(listeners, mredis, mstats, nk.key, nh.key,
                                   failures), c)

RetryingKeys(pattern, failures) ==
    LET nk == ManagerNormalizeKey(pattern)
        c == [op |-> "keys", key |-> pattern, hash |-> <<>>,
              failures |-> failures]
    IN  IF ~nk.ok THEN RetryApply(Refused(mredis, mstats), c)
        ELSE RetryApply(KeysBody(listeners, mredis, mstats, nk.key, <<>>,
                                 failures), c)

RetryingClear(failures) ==
    RetryApply(ClearBody(listeners, mredis, mstats, failures),
               [op |-> "clear", failures |-> failures])

RetryingGetSize(failures) ==
    RetryApply(GetSizeBody(listeners, mredis, mstats, failures),
               [op |-> "getSize", failures |-> failures])

RetryingPing(failures) ==
    RetryApply(PingBody(listeners, mredis, mstats, failures),
               [op |-> "ping", failures |-> failures])

RetryingExtendTTL(key, ttl, fs) ==
    LET nk == ManagerNormalizeKey(key)
        c == [op |-> "extendTTL", key |-> key, hash |-> <<>>, failures |-> fs]
    IN  IF ~nk.ok THEN RetryApply(Refused(mredis, mstats), c)
        ELSE RetryApply(ExtendTTLBody(listeners, mredis, mstats, now, nk.key,
                                      ttl, <<>>, fs), c)

\* Cache.extendTTL step by step, for the calls other callers make while it
\* is suspended.  Invocation: normalizeKey, then the adapter's extendTTL is
\* awaited.  used is the key the pending backend call carries.
ExtendTTLInvoke(key, ttl) ==
    LET nk == ManagerNormalizeKey(key)
    IN  /\ flight.phase = "idle"
        /\ nk.ok
        /\ flight' = [phase |-> "native", key |-> nk.key, ttl |-> ttl,
                      used |-> nk.key]
        /\ mcall' = [op |-> "extendTTL:invoke", key |-> key]
        /\ mret' = Null
        /\ UNCHANGED <<evars, deletes, mredis, mstats, listeners, caseSensitive>>

\* the adapter's extendTTL resolves: true ends the call; false goes on to
\* this.get(key, hash), whose normalizeKey runs before its backend call
ExtendTTLNative ==
    LET x == BackendExtendTTL(mredis, now, flight.used, flight.ttl, <<>>)
        nk == ManagerNormalizeKey(flight.key)
    IN  /\ flight.phase = "native"
        /\ \A k \in DOMAIN x.db : x.db[k].ext <= MaxExtend
        /\ mredis' = x.db
        /\ flight' = IF x.ret THEN [phase |-> "idle"]
                      ELSE [flight EXCEPT !.phase = "get", !.used = nk.key]
        /\ mcall' = [op |-> "extendTTL:native"]
        /\ mret' = IF x.ret THEN Returned(TRUE) ELSE Null
        /\ UNCHANGED <<evars, deletes, mstats, listeners, caseSensitive>>

\* the fallback get resolves: null ends the call with false; a value goes
\* on to this.set(key, value, ttl, hash), whose normalizeKey runs before
\* its backend call
ExtendTTLGet ==
    LET value == BackendGet(mredis, flight.used, <<>>)
        nk == ManagerNormalizeKey(flight.key)
        st == Bump(mstats, IF HitOrMiss(value) = "hit" THEN "hits" ELSE "misses", 1)
    IN  /\ flight.phase = "get"
        /\ st.hits + st.misses + st.errors <= MaxOps
        /\ mstats' = st
        /\ flight' = IF value = Null THEN [phase |-> "idle"]
                      ELSE [phase |-> "set", key |-> flight.key, ttl |-> flight.ttl,
                            used |-> nk.key, value |-> value]
        /\ mcall' = [op |-> "extendTTL:get"]
        /\ mret' = IF value = Null THEN Returned(FALSE) ELSE Null
        /\ UNCHANGED <<evars, deletes, mredis, listeners, caseSensitive>>

\* the fallback set resolves
ExtendTTLSet ==
    LET w == BackendSet(mredis, now, flight.used, flight.value, flight.ttl, <<>>)
    IN  /\ flight.phase = "set"
        /\ mredis' = w.db
        /\ flight' = [phase |-> "idle"]
        /\ mcall' = [op |-> "extendTTL:set"]
        /\ mret' = Returned(TRUE)
        /\ UNCHANGED <<evars, deletes, mstats, listeners, caseSensitive>>

\* Cache.on with a listener that throws
On(event) ==
    /\ event \notin listeners
    /\ listeners' = listeners \cup {event}
    /\ mcall' = [op |-> "on", event |-> event]
    /\ mret' = Null
    /\ UNCHANGED <<evars, flight, deletes, mredis, mstats, caseSensitive>>

\* the calls of the retrying manager
ListenerEvents == {"hit", "error"}
FailureCounts == {0, 1, Forever}
RetryingSetCalls ==
    [key : {<<"K">>}, data : {"zero"}, ttl : {{}, {0}}, hash : {<<>>},
     failures : FailureCounts]
    \cup [key : {<<"k">>}, data : InvalidValues, ttl : {{}}, hash : {<<>>},
          failures : {0, Forever}]
    \cup [key : {ManagerLongKey}, data : {"zero"}, ttl : {{}}, hash : {<<>>},
          failures : {0}]
RetryingKeyCalls ==
    [key : {<<"K">>}, hash : {<<>>}, failures : FailureCounts]
    \cup [key : {ManagerLongKey}, hash : {<<>>}, failures : {0, Forever}]
RetryingExtendCalls ==
    [key : {<<"k">>}, ttl : {1}, failures : [1..3 -> {0, Forever}]]

NextRetry ==
    \/ \E c \in RetryingSetCalls :
           RetryingSet(c.key, c.data, c.ttl, c.hash, c.failures)
    \/ \E c \in RetryingKeyCalls : RetryingGet(c.key, c.hash, c.failures)
    \/ \E c \in RetryingKeyCalls : RetryingDelete(c.key, c.hash, c.failures)
    \/ \E c \in RetryingKeyCalls : RetryingKeys(c.key, c.failures)
    \/ \E f \in FailureCounts : RetryingClear(f)
    \/ \E f \in FailureCounts : RetryingGetSize(f)
    \/ \E f \in FailureCounts : RetryingPing(f)
    \/ \E c \in RetryingExtendCalls : RetryingExtendTTL(c.key, c.ttl, c.failures)
    \/ \E e \in ListenerEvents : On(e)
    \/ ManagerTick
SpecRetry == Init /\ [][NextRetry]_vars

---------------------------------------------------------------------------
(* Concurrent delete calls of the retrying manager.  A call runs to its     *)
(* first await in one step and is resumed when the backend has answered or  *)
(* the backoff timer has fired; the server executes one DEL at a time.      *)

MaxCalls == 3

Callers == 1..MaxCalls

\* a step of the caller p that leaves the others where they are
DeleteStep(p, proc, db, st) ==
    /\ deletes' = [x \in DOMAIN deletes \cup {p} |-> IF x = p THEN proc ELSE deletes[x]]
    /\ mredis' = db
    /\ mstats' = st
    /\ UNCHANGED <<evars, flight, mcall, mret, listeners, caseSensitive>>

\* delete(key) is called: normalizeKey, then retry starts the first
\* adapter.delete, which sends DEL and awaits.  existed is history: the key
\* was there when the call was made.
DeleteInvoke(p, key) ==
    LET nk == ManagerNormalizeKey(key)
    IN  /\ p \notin DOMAIN deletes
        /\ nk.ok
        /\ DeleteStep(p, [pc |-> "del", key |-> nk.key, i |-> 0,
                          existed |-> Present(mredis, BackendKey(nk.key, <<>>))],
                      mredis, mstats)

\* the server executes the DEL of p and the client resolves with its count
DeleteAnswered(p) ==
    /\ p \in DOMAIN deletes
    /\ deletes[p].pc = "del"
    /\ LET d == BackendDelete(mredis, deletes[p].key, <<>>)
       IN  DeleteStep(p, [deletes[p] EXCEPT !.pc = "answered"] @@ [success |-> d.ret],
                      d.db, mstats)

\* the client rejects the DEL of p: retry sleeps when i < retries, and
\* throws the error once the loop is over
DeleteRejected(p) ==
    /\ p \in DOMAIN deletes
    /\ deletes[p].pc = "del"
    /\ DeleteStep(p, [deletes[p] EXCEPT !.pc = IF deletes[p].i < MaxRetries
                                               THEN "sleep" ELSE "threw"],
                  mredis, mstats)

\* the backoff timer of p fires: the next round of the loop sends DEL again
DeleteWake(p) ==
    /\ p \in DOMAIN deletes
    /\ deletes[p].pc = "sleep"
    /\ DeleteStep(p, [deletes[p] EXCEPT !.pc = "del", !.i = @ + 1], mredis, mstats)

\* delete is resumed after retry: the delete event when the DEL removed the
\* key, the catch block when retry threw; then it returns
DeleteReturn(p) ==
    /\ p \in DOMAIN deletes
    /\ deletes[p].pc \in {"answered", "threw"}
    /\ LET run == [threw |-> deletes[p].pc = "threw", attempts |-> deletes[p].i + 1,
                   sleeps |-> deletes[p].i]
           r == IF run.threw
                THEN Caught(listeners, mredis, mstats, <<>>, Returned(FALSE), run)
                ELSE IF deletes[p].success
                THEN Emitted(listeners, mredis, mstats, Event("delete", deletes[p].key),
                             Returned(TRUE), Returned(FALSE), run)
                ELSE Done(mredis, mstats, <<>>, Returned(FALSE), run)
       IN  /\ r.st.hits + r.st.misses + r.st.errors <= MaxOps
           /\ DeleteStep(p, [pc |-> "done", key |-> deletes[p].key,
                             existed |-> deletes[p].existed, threw |-> run.threw,
                             ret |-> r.ret],
                         mredis, r.st)

ConcurrentKeys == {<<"k">>}

\* a set fills the cache before the first delete is called
NextConcurrent ==
    \/ /\ deletes = <<>>
       /\ \E key \in ConcurrentKeys : RetryingSet(key, "big", {}, <<>>, 0)
    \/ \E p \in Callers, key \in ConcurrentKeys : DeleteInvoke(p, key)
    \/ \E p \in Callers : DeleteAnswered(p)
    \/ \E p \in Callers : DeleteRejected(p)
    \/ \E p \in Callers : DeleteWake(p)
    \/ \E p \in Callers : DeleteReturn(p)
    \/ ManagerTick

SpecConcurrent == Init /\ [][NextConcurrent]_vars

---------------------------------------------------------------------------
(* Properties *)

\* the TTL of the last set has not elapsed
SetStillFresh == now < call.at + EffectiveTTL(call.ttl)

\* a step that reads, with get, the key and namespace the last call set
GetAfterSet ==
    /\ call.op = "set"
    /\ call'.op = "get"
    /\ now' = now
    /\ call'.key = call.key
    /\ call'.ns = call.ns

\* C1 as stated: for every key, namespace and JSON-serializable value v,
\* set(k, v) followed by get(k) in the same namespace, with no write to k in
\* between and before the TTL elapses, returns v.
C1_RoundTripEveryKey ==
    [][(GetAfterSet /\ call.value \in JsonValues /\ SetStillFresh)
           => ret' = call.value]_vars

\* C1, amended: when set(k, v) of a value v that JSON has a text for
\* returned true and the backend answers the read, get(k) in the same
\* namespace, with no write to k in between and before the TTL elapses,
\* returns v; falsy values included.
C1_RoundTrip ==
    [][(/\ GetAfterSet
        /\ call.value \in JsonValues
        /\ ret = TRUE
        /\ SetStillFresh
        /\ ~call'.fail)
           => ret' = call.value]_vars

\* the falsy value read back under an explicit namespace, right after its set
C1_RoundTripWitness ==
    /\ call.op = "get"
    /\ call.ns # <<>>
    /\ ret = "zero"
    /\ stats.sets = 1
    /\ stats.hits = 1

\* C2: get and mget never return the data of an entry whose envelope
\* expiresAt is earlier than the current time; they return null for it.
C2_ExpirySafety ==
    /\ call.op = "get" => (call.pre[1] # "live" => ret = Null)
    /\ call.op = "mget" =>
          \A i \in 1..Len(call.keys) : call.pre[i] # "live" => ret[i] = Null

\* an mget met a stored entry whose envelope had expired, and answered null
C2_ExpirySafetyWitness ==
    /\ call.op = "mget"
    /\ \E i \in 1..Len(call.keys) : call.pre[i] = "expired" /\ ret[i] = Null

\* the listed keys that build a physical key within the length limit
AllBuild(keys, nsOpt) ==
    \A i \in 1..Len(keys) : BuildKey(NormalizeKey(keys[i]), CacheNamespace(nsOpt)).ok

\* C3 as stated: mget(keys) returns one result per key, in the order of
\* keys; position i holds the value last set for keys[i] if it is live and
\* null otherwise; for every list of keys, repeated keys and backend
\* failure included.
C3_MgetEveryCall ==
    call.op = "mget" =>
        /\ Len(ret) = Len(call.keys)
        /\ \A i \in 1..Len(call.keys) :
              ret[i] = IF call.pre[i] = "live" THEN call.held[i] ELSE Null

\* C3, amended: mget(keys) always returns one result per key; when the
\* backend answers and every listed key is within the key length limit,
\* position i holds the value stored for keys[i] if it is live and null
\* otherwise, repeated keys included; when the backend fails or a listed key
\* is too long, every position holds null.
C3_Mget ==
    call.op = "mget" =>
        /\ Len(ret) = Len(call.keys)
        /\ \A i \in 1..Len(call.keys) :
              ret[i] = IF /\ ~call.fail
                          /\ AllBuild(call.keys, call.ns)
                          /\ call.pre[i] = "live"
                       THEN call.held[i] ELSE Null

\* an mget of two different keys answered null first and a value second
C3_MgetWitness ==
    /\ call.op = "mget"
    /\ Len(call.keys) = 2
    /\ ret[1] = Null
    /\ ret[2] \in StoredValues

\* a step of flushByTags that reported success
FlushByTagsStep == call'.op = "flushByTags" /\ now' = now /\ ret' = TRUE

\* C4: flushByTags(tags) removes every live key whose most recent set
\* carried one of the tags and leaves every other key untouched.
C4_FlushByTagsFrame ==
    [][FlushByTagsStep =>
        \A k \in DOMAIN redis :
            redis[k].type = "string" =>
                IF redis[k].wtags \cap call'.tags # {}
                THEN k \notin DOMAIN redis'
                ELSE k \in DOMAIN redis' /\ redis'[k] = redis[k]]_vars

\* a step of flushNamespace that reported success
FlushNamespaceStep == call'.op = "flushNamespace" /\ now' = now /\ ret' = TRUE

\* C5: flushNamespace(ns) removes exactly the keys written under ns: every
\* key of ns is gone, every key written under another namespace stays as it
\* was.
C5_FlushNamespaceFrame ==
    [][FlushNamespaceStep =>
        \A k \in DOMAIN redis :
            redis[k].type = "string" =>
                IF redis[k].wns = call'.ns
                THEN k \notin DOMAIN redis'
                ELSE k \in DOMAIN redis' /\ redis'[k] = redis[k]]_vars

\* what get(key) under the namespace option answers from a keyspace
Read(db, key, nsOpt) ==
    RedisGet(db, stats, now, NormalizeKey(key), ReadOptions(nsOpt), FALSE).ret

\* C6: a set under (n1, k1) never changes what get returns under (n2, k2)
\* when n1 and n2 differ.
C6_NamespaceIsolation ==
    [][(call'.op = "set" /\ now' = now) =>
        \A nsOpt \in NamespaceOptions \ {call'.ns}, key \in ValidKeys :
            Read(redis', key, nsOpt) = Read(redis, key, nsOpt)]_vars

\* C10 as stated: deleteMany(keys) returns the count of distinct listed keys
\* that were live before the call, and all listed keys are absent afterwards.
C10_DeleteManyEveryCall ==
    call.op = "deleteMany" =>
        /\ ret = Cardinality({NormalizeKey(call.keys[i]) :
                                 i \in {j \in 1..Len(call.keys) : call.pre[j] = "live"}})
        /\ \A i \in 1..Len(call.keys) :
              LET bk == BuildKey(NormalizeKey(call.keys[i]), CacheNamespace(call.ns))
              IN  bk.ok => bk.key \notin DOMAIN redis

\* C10, amended: when the backend answers and every listed key is within
\* the key length limit, deleteMany(keys) returns the number of distinct
\* listed keys the backend held before the call (an entry past its envelope
\* expiry that the backend still holds counts) and all listed keys are absent
\* afterwards; otherwise it returns 0.
C10_DeleteMany ==
    call.op = "deleteMany" =>
        IF ~call.fail /\ AllBuild(call.keys, call.ns)
        THEN /\ ret = Cardinality({NormalizeKey(call.keys[i]) :
                          i \in {j \in 1..Len(call.keys) : call.pre[j] # "absent"}})
             /\ \A i \in 1..Len(call.keys) :
                   BuildKey(NormalizeKey(call.keys[i]),
                            CacheNamespace(call.ns)).key \notin DOMAIN redis
        ELSE ret = 0

\* a deleteMany of two keys removed one: the other was not there
C10_DeleteManyWitness ==
    /\ call.op = "deleteMany"
    /\ ~call.fail
    /\ Len(call.keys) = 2
    /\ call.pre[1] = "absent"
    /\ call.pre[2] # "absent"
    /\ ret = 1

\* the physical key of the legacy manager for a key within the length limit
ManagerKey(key) == GetKey(ManagerNormalizeKey(key).key, <<>>)

\* C7: delete(k) on a live key returns true and removes it; delete(k) on an
\* absent key returns false; either way k is absent afterwards.
C7_DeleteReportsPresence ==
    [][(mcall'.op = "delete" /\ now' = now /\ ~mret'.rejected) =>
        /\ mret'.value = (ManagerKey(mcall'.key) \in DOMAIN mredis)
        /\ ManagerKey(mcall'.key) \notin DOMAIN mredis']_vars

\* C8: set with a cyclic value rejects and writes nothing: what every key
\* held before, it holds after.
C8_CyclicSetRejected ==
    [][(mcall'.op = "set" /\ now' = now /\ mcall'.value = Cyclic) =>
        /\ mret'.rejected
        /\ mredis' = mredis]_vars

\* a cyclic value was refused for a key that holds a value
C8_CyclicSetRejectedWitness ==
    /\ mcall.op = "set"
    /\ mcall.value = Cyclic
    /\ mret.rejected
    /\ ManagerKey(mcall.key) \in DOMAIN mredis

\* C9: when any value of the batch is undefined or not serializable, mset
\* fails and writes none of the batch's entries; every key keeps what it held.
C9_MsetAllOrNothing ==
    [][(/\ mcall'.op = "mset"
        /\ now' = now
        /\ \E k \in DOMAIN mcall'.data :
              mcall'.data[k] = Undefined \/ mcall'.data[k] = Cyclic) =>
        /\ mret'.rejected
        /\ mredis' = mredis]_vars

\* a batch of a valid and a cyclic value was refused, and the key of the
\* valid one still holds the different value it held before
C9_MsetAllOrNothingWitness ==
    /\ mcall.op = "mset"
    /\ mret.rejected
    /\ \E k \in DOMAIN mcall.data, x \in DOMAIN mcall.data :
          /\ mcall.data[k] = "zero"
          /\ mcall.data[x] = Cyclic
          /\ GetKey(k, <<>>) \in DOMAIN mredis
          /\ Parse(mredis[GetKey(k, <<>>)].val) = "big"
          /\ GetKey(x, <<>>) \notin DOMAIN mredis

\* the count a key starts from: its counter, or 0 when it is fresh or was
\* stored with set(k, 0)
CounterBefore(db, key, nsOpt) ==
    LET bk == BuildKey(NormalizeKey(key), CacheNamespace(nsOpt))
    IN  IF IsCounter(db, bk.key) THEN db[bk.key].val.number ELSE 0

\* the value get hands out for the number n
AsValue(n) == IF n = 0 THEN "zero" ELSE ToString(n)

\* C11: increment(k, a) returns the counter after adding a (a on a fresh key
\* and on a key stored with set(k, 0)), a following decrement(k, b) returns
\* that value minus b, and a following get(k) returns the number the last
\* increment / decrement returned.
C11_CounterScenario ==
    [][/\ (call'.op = "increment" /\ now' = now /\ call'.failAt = 0) =>
              /\ ~call'.threw
              /\ ret' = CounterBefore(redis, call'.key, call'.ns) + call'.amount
       /\ (/\ call'.op = "decrement" /\ now' = now /\ call'.failAt = 0
           /\ call.op = "increment" /\ ~call.threw
           /\ call'.key = call.key) =>
              /\ ~call'.threw
              /\ ret' = ret - call'.amount
       /\ (/\ call'.op = "get" /\ now' = now /\ ~call'.fail
           /\ call.op \in {"increment", "decrement"} /\ ~call.threw
           /\ call'.key = call.key) =>
              ret' = AsValue(ret)]_vars

\* the backend key a counter call addresses
CounterKey(c) == BuildKey(NormalizeKey(c.key), CacheNamespace(c.ns)).key

\* C12: increment and decrement are atomic at the backend: no update is lost
\* (every call that returns moved the counter by exactly its amount from the
\* value the backend held), and each call is a single backend step, so no
\* failure leaves a newly created counter without its TTL.
C12_CounterAtomic ==
    [][(call'.op \in {"increment", "decrement"} /\ now' = now) =>
          LET k == CounterKey(call')
              delta == IF call'.op = "increment" THEN call'.amount
                       ELSE 0 - call'.amount
          IN  /\ ~call'.threw =>
                    /\ IsCounter(redis', k)
                    /\ redis'[k].val.number
                           = CounterBefore(redis, call'.key, call'.ns) + delta
              /\ (~Present(redis, k) /\ Present(redis', k)) =>
                    redis'[k].exp # {}]_vars

\* the operations of the retrying manager that run one backend operation
SingleBackendOps == {"get", "set", "delete", "keys", "clear", "getSize", "ping"}

\* C13: bounded retry: a manager call whose backend operation fails on
\* every attempt invokes that backend operation at most maxRetries times
\* in total (3 by default), then gives up.
C13_BoundedRetry ==
    mcall.op \in SingleBackendOps => mcall.attempts <= MaxRetries

\* the call c was made with invalid input: a key longer than maxKeyLength,
\* or, for set, a value that is undefined or cannot be serialized
InvalidInput(c) ==
    /\ c.op \in {"set", "get", "delete", "keys"}
    /\ \/ Len(c.key) > ManagerMaxKeyLength
       \/ (c.op = "set" /\ c.value \in {Undefined, Cyclic})

\* C14: a validation failure is never retried: set, get, delete or keys
\* called with invalid input fails with the backend operation invoked zero
\* times and no backoff delay.
C14_ValidationNotRetried ==
    InvalidInput(mcall) =>
        /\ mcall.failed
        /\ mcall.attempts = 0
        /\ mcall.sleeps = 0

\* an undefined value was handed to set while the backend was down
C14_ValidationNotRetriedWitness ==
    /\ mcall.op = "set"
    /\ mcall.value = Undefined
    /\ mcall.failures = Forever
    /\ mret = Rejected
    /\ mcall.attempts = 0

\* how many events of the given name the call c emitted
EventCount(c, name) ==
    Cardinality({i \in 1..Len(c.events) : c.events[i].name = name})

\* C15: every manager operation that ends in failure emits the error event
\* exactly once, whatever the number of retry attempts; extendTTL, whose
\* fallback calls get and set, included.
C15_ErrorOnce ==
    (mcall.op \in SingleBackendOps \cup {"extendTTL"} /\ mcall.failed) =>
        EventCount(mcall, "error") = 1

\* a step of get on a key that normalizeKey accepts
RetryingGetStep ==
    /\ mcall'.op = "get"
    /\ now' = now
    /\ Len(mcall'.key) <= ManagerMaxKeyLength

\* C16: a registered listener that throws does not interrupt or alter the
\* operation that emitted the event: a get returns the same result and
\* leaves the same counters as it would with no throwing listener.
C16_ListenerIsolated ==
    [][RetryingGetStep =>
          LET quiet == GetBody({}, mredis, mstats,
                               ManagerNormalizeKey(mcall'.key).key,
                               NormalizeHash(mcall'.hash).key, mcall'.failures)
          IN  /\ mret' = quiet.ret
              /\ mstats' = quiet.st]_vars

\* the documented sentinel of an operation
Sentinel(op) ==
    CASE op = "get" -> Returned(Null)
      [] op = "keys" -> Returned({})
      [] op = "getSize" -> Returned(0)
      [] OTHER -> Returned(FALSE)

\* a step of get, delete, clear, keys, getSize or ping whose backend call
\* fails on every attempt
BackendDownStep ==
    /\ mcall'.op \in {"get", "delete", "clear", "keys", "getSize", "ping"}
    /\ now' = now
    /\ mcall'.failures = Forever
    /\ mcall'.op \in {"get", "delete", "keys"} =>
           Len(mcall'.key) <= ManagerMaxKeyLength

\* the call of the step emitted one error event, handed back its sentinel
\* and left the hit and miss counters alone
SentinelReturned ==
    /\ mret' = Sentinel(mcall'.op)
    /\ EventCount(mcall', "error") = 1
    /\ mstats'.hits = mstats.hits
    /\ mstats'.misses = mstats.misses

\* C17 as stated: whenever the backend call of get, delete, clear, keys,
\* getSize or ping fails on every attempt the call does not raise.
C17_SentinelEveryCall == [][BackendDownStep => SentinelReturned]_vars

\* C17: when the backend call of get, delete, clear, keys, getSize or ping
\* fails on every attempt, and no listener registered for the error event
\* throws, the call does not raise: it emits an error event, returns its
\* sentinel (null, false, false, empty list, 0, false) and leaves the hit
\* and miss counters unchanged.
C17_Sentinel ==
    [][(BackendDownStep /\ "error" \notin listeners) => SentinelReturned]_vars

\* a get gave up after every attempt failed and returned null
C17_SentinelWitness ==
    /\ mcall.op = "get"
    /\ mcall.failures = Forever
    /\ mcall.attempts = MaxRetries + 1
    /\ "error" \notin listeners
    /\ mret = Returned(Null)

\* the hit and miss events of the call c, in order
HitMissEvents(c) == SelectSeq(c.events, LAMBDA e : e.name \in {"hit", "miss"})

\* the counters moved by the given numbers of hits and misses in the step
Counted(h, m) ==
    /\ mstats'.hits = mstats.hits + h
    /\ mstats'.misses = mstats.misses + m

\* C20: each get that completes without backend failure increments exactly
\* one of hits and misses (hits iff the backend returned a non-null value)
\* and emits the matching hit or miss event with the normalized key; no
\* other step moves the two counters (the get inside the fallback of
\* extendTTL counts as a get), so hits + misses is the number of such gets.
C20_HitOrMiss ==
    [][now' = now =>
          LET c == mcall'
          IN  IF c.op = "get"
              THEN (Len(c.key) <= ManagerMaxKeyLength /\ c.failures <= MaxRetries) =>
                       LET nk == ManagerNormalizeKey(c.key).key
                           found == BackendGet(mredis, nk,
                                               NormalizeHash(c.hash).key) # Null
                       IN  /\ Counted(IF found THEN 1 ELSE 0,
                                      IF found THEN 0 ELSE 1)
                           /\ HitMissEvents(c)
                                  = <<Event(IF found THEN "hit" ELSE "miss", nk)>>
              ELSE IF c.op = "extendTTL"
              THEN Counted(EventCount(c, "hit"), EventCount(c, "miss"))
              ELSE Counted(0, 0)]_vars

\* a get of "K" went through on its second attempt and counted a hit on "k"
C20_HitOrMissWitness ==
    /\ mcall.op = "get"
    /\ mcall.key = <<"K">>
    /\ mcall.failures = 1
    /\ mcall.events = <<Event("hit", <<"k">>)>>
    /\ mstats.hits = 1
    /\ mret = Returned("zero")

\* what get(key, hash) of the legacy manager finds in the keyspace db
View(db, key, hash) ==
    AdapterGetHash(db, ManagerNormalizeKey(key).key, NormalizeHash(hash).key,
                   FALSE)

\* C18: hash isolation: the entry stored under (key, hash H) with H non-empty
\* and any entry stored without a hash are distinct, keys and hashes that
\* contain the separator included: a set or delete under a hash changes
\* nothing that a get without hash reads, and the other way round.
C18_HashIsolation ==
    [][(mcall'.op \in {"set", "delete"} /\ now' = now) =>
          IF mcall'.hash # <<>>
          THEN \A k \in HashKeys : View(mredis', k, <<>>) = View(mredis, k, <<>>)
          ELSE \A k \in HashKeys, h \in Hashes :
                   View(mredis', k, h) = View(mredis, k, h)]_vars

Lower(key) == [i \in 1..Len(key) |-> ToLower(key[i])]

\* after a write of value under key, the entry that key addresses holds the
\* value; so does the entry of lowercase(key) under the case-insensitive
\* policy, and under the case-sensitive policy that entry is untouched when
\* the two keys differ
WroteUnder(key, value) ==
    /\ View(mredis', key, <<>>) = value
    /\ ~caseSensitive => View(mredis', Lower(key), <<>>) = value
    /\ (caseSensitive /\ key # Lower(key)) =>
           View(mredis', Lower(key), <<>>) = View(mredis, Lower(key), <<>>)

\* C19: key normalization: under the case-insensitive policy every
\* operation on K and on lowercase(K) addresses the same entry; under the
\* case-sensitive policy they address distinct entries when K differs from
\* lowercase(K).
C19_KeyNormalization ==
    [][now' = now =>
          /\ (mcall'.op = "set" /\ mcall'.hash = <<>> /\ mret' = Returned(TRUE)) =>
                 WroteUnder(mcall'.key, mcall'.value)
          /\ (mcall'.op = "mset" /\ mret' = Returned(TRUE)) =>
                 \A k \in DOMAIN mcall'.data : WroteUnder(k, mcall'.data[k])]_vars

\* C21: the statistics counters hits, misses, sets, deletes and errors are
\* monotonic: no cache operation, the three flushes included, decreases or
\* resets any of them.
C21_StatsMonotonic ==
    [][\A f \in {"hits", "misses", "sets", "deletes", "errors"} :
           stats'[f] >= stats[f]]_vars

\* a flush wiped a keyspace while writes and errors had been counted
C21_StatsMonotonicWitness ==
    /\ call.op = "flush"
    /\ ret = TRUE
    /\ call.pre > 0
    /\ stats.sets > 0
    /\ stats.errors > 0

\* C24: flush is an unconditional wipe: after it returned true every key
\* stored before, in every namespace, reads as absent and getSize is 0.
C24_FlushWipes ==
    (call.op = "flush" /\ ret = TRUE) =>
        /\ \A key \in {<<"k">>}, nsOpt \in NamespaceOptions :
               Read(redis, key, nsOpt) = Null
        /\ RedisGetSize(redis, stats, FALSE).ret = 0

\* a flush met entries of both namespaces and a tag index
C24_FlushWipesWitness ==
    /\ call.op = "flush"
    /\ ret = TRUE
    /\ call.pre >= 3

\* C22: tag index soundness: in every reachable state a physical key that is
\* a member of the index of tag t was written with tag t by its most recent
\* set (wtags, kept beside the value of a stored key, are the tags of that
\* set).
C22_TagIndexSound ==
    \A t \in Tags :
        \A m \in RedisSMembers(redis, BuildTagKey(t)) :
            Present(redis, m) => t \in redis[m].wtags

---------------------------------------------------------------------------
(* Pipelines: commands queued on cache.pipeline() and executed, beside     *)
(* set and get on the adapter itself.                                       *)

PipelineSetCalls ==
    [key : {<<"k">>}, value : {"zero"}, ttl : {0}]
    \cup [key : {<<"k">>}, value : {"big"}, ttl : {1}]
    \cup [key : {LongKey}, value : {"zero"}, ttl : {0}]

NextPipeline ==
    \/ \E c \in PipelineSetCalls : CachePipelineSet(c.key, c.value, c.ttl)
    \/ CachePipelineGet(<<"k">>)
    \/ CachePipelineDel(<<"k">>)
    \/ \E ttl \in ExpireTtls : CachePipelineExpire(<<"k">>, ttl)
    \/ \E failed \in SUBSET (1..Len(pipe)) : CachePipelineExec(failed)
    \/ DirectSet(<<"k">>, "big", 0, FALSE)
    \/ DirectGet(<<"k">>, FALSE)
    \/ Tick

SpecPipeline == Init /\ [][NextPipeline]_vars

\* the queued commands before position i that the server ran on the key of
\* command i
RanBefore(queued, failed, i) ==
    {j \in 1..(i - 1) : j \notin failed /\ queued[j].key = queued[i].key}

\* the last of them
LastBefore(queued, failed, i) ==
    CHOOSE j \in RanBefore(queued, failed, i) :
        \A x \in RanBefore(queued, failed, i) : x <= j

\* C23: exec returns one result per queued command, in the order queued: the
\* slot of a failed command holds null, and every other slot holds the reply
\* to its own command, run after the commands queued before it (a get or a
\* del that follows a set of its key finds what that set wrote).
C23_ExecResults ==
    call.op = "exec" =>
        /\ Len(ret) = Len(call.queued)
        /\ \A i \in 1..Len(call.queued) :
              LET c == call.queued[i]
                  ran == RanBefore(call.queued, call.failed, i)
                  last == call.queued[LastBefore(call.queued, call.failed, i)]
              IN  IF i \in call.failed THEN ret[i] = {}
                  ELSE CASE c.cmd = "set" -> ret[i] = {"OK"}
                         [] c.cmd = "get" ->
                              /\ (ran # {} /\ last.cmd = "set") => ret[i] = {last.text}
                              /\ (ran # {} /\ last.cmd = "del") => ret[i] = {}
                         [] c.cmd = "del" ->
                              /\ ret[i] \in {{0}, {1}}
                              /\ (ran # {} /\ last.cmd = "set") => ret[i] = {1}
                              /\ (ran # {} /\ last.cmd = "del") => ret[i] = {0}
                         [] c.cmd = "expire" -> ret[i] \in {{0}, {1}}

C23_ExecResultsWitness ==
    /\ call.op = "exec"
    /\ Len(ret) = 2
    /\ call.failed = {1}
    /\ call.queued[1].cmd = "get"
    /\ call.queued[2].cmd = "set"
    /\ ret[1] = {}
    /\ ret[2] = {"OK"}

PipelineValues == {"zero", "big"}

\* C30: an adapter get of a key that holds what pipeline().set(k, v) wrote
\* returns v, as it does for what set(k, v) wrote.
C30_PipelineSetReadable ==
    \A v \in PipelineValues :
        (call.op = "adapter.get" /\ ~call.fail /\ call.stored = {RawText(v)})
            => ret = v

---------------------------------------------------------------------------
(* The codec: set with either value of the per-call compression option, on *)
(* an adapter constructed with either value of enableCompression.           *)

CodecSetCalls ==
    [key : {<<"k">>}, value : StoredValues, ns : NoNamespace, ttl : TtlOptions,
     tags : {{}}, compression : BOOLEAN, fail : {FALSE}]

NextCodec == Sets(CodecSetCalls) \/ Gets(GetCalls(NoNamespace)) \/ Tick

SpecCodec == InitCodec /\ [][NextCodec]_vars

\* the physical key of a set or get call
CallKey(c) == BuildKey(NormalizeKey(c.key), CacheNamespace(c.ns)).key

\* C25: what a set stores carries the compression marker exactly when the
\* adapter's flag is on, the call's compression option is not false and the
\* serialized envelope is longer than the threshold; a get of the entry
\* returns the value that was set, whether or not its text is compressed.
C25_Compression ==
    [][/\ (call'.op = "set" /\ ret' = TRUE /\ now' = now) =>
             ((redis'[CallKey(call')].val.marker = "__compressed__")
                 <=> /\ enableCompression
                     /\ call'.compression
                     /\ EntryLength(MakeEntry(call'.value, EffectiveTTL(call'.ttl), now))
                           > CompressionThreshold)
       /\ (GetAfterSet /\ ret = TRUE /\ SetStillFresh /\ ~call'.fail)
             => ret' = call.value]_vars

\* a long value set with compression: false on a compressing adapter, stored
\* without the marker and read back
C25_CompressionWitness ==
    /\ call.op = "get"
    /\ ret = "big"
    /\ enableCompression
    /\ redis[CallKey(call)].val.marker = ""

\* C26: a set is rejected for its key exactly when the raw key, before the
\* prefix and the namespace are prepended, is longer than the maximum (the
\* value being storable and the backend answering, nothing else rejects).
C26_RawKeyLength ==
    (call.op = "set" /\ ~call.fail /\ call.value \in StoredValues)
        => ((ret = FALSE) <=> (Len(call.key) > MaxKeyLength))

\* C27: with an adapter that has extendTTL, the manager's extendTTL never
\* runs the read-then-rewrite fallback: no extendTTL emits the hit of the
\* fallback read followed by the set event of the rewrite.
C27_NativeOnly ==
    mcall.op = "extendTTL" =>
        \A i \in 1..(Len(mcall.events) - 1) :
            ~(mcall.events[i].name = "hit" /\ mcall.events[i + 1].name = "set")

---------------------------------------------------------------------------
(* Reads of entries past their envelope's expiry that Redis still holds,   *)
(* with the cleanup DEL answered or rejected.                               *)

CleanupSetCalls ==
    [key : {<<"k">>, <<"b", ":", "k">>}, value : {"zero"}, ns : NoNamespace, ttl : {1},
     tags : {{}}, compression : {TRUE}, fail : {FALSE}]

NextCleanup ==
    \/ Sets(CleanupSetCalls)
    \/ Expires(PlainExpireCalls)
    \/ \E key \in {<<"k">>, <<"b", ":", "k">>}, failAt \in {0, 2} : CacheGetAt(key, <<>>, failAt)
    \/ \E keys \in KeyLists, failAt \in {0, 2} : CacheMgetAt(keys, <<>>, failAt)
    \/ Tick

SpecCleanup == Init /\ [][NextCleanup]_vars

\* C28: a get or mget that finds an entry past its expiry returns null for
\* it, and when the DEL that cleans the entry up fails the read neither
\* raises nor counts an error.
C28_CleanupFireAndForget ==
    [][(/\ call'.op \in {"get", "mget"}
        /\ now' = now
        /\ ~call'.fail
        /\ \E i \in 1..Len(call'.pre) : call'.pre[i] = "expired")
           => /\ stats'.errors = stats.errors
              /\ call'.op = "get" => ret' = Null
              /\ call'.op = "mget" =>
                    \A i \in 1..Len(call'.pre) :
                        call'.pre[i] = "expired" => ret'[i] = Null]_vars

---------------------------------------------------------------------------
(* extendTTL of the retrying manager in flight, while other callers set    *)
(* keys and switch the case-sensitivity flag.                               *)

FlightKeys == {<<"K">>, <<"k">>}

NextFlight ==
    \/ \E key \in FlightKeys, ttl \in {{}, {0}} : RetryingSet(key, "zero", ttl, <<>>, 0)
    \/ \E key \in FlightKeys : RetryingGet(key, <<>>, 0)
    \/ \E v \in BOOLEAN : SetCaseSensitivity(v)
    \/ \E key \in FlightKeys : ExtendTTLInvoke(key, 1)
    \/ ExtendTTLNative
    \/ ExtendTTLGet
    \/ ExtendTTLSet
    \/ ManagerTick

SpecFlight == Init /\ [][NextFlight]_vars

\* C29: every backend call of an extendTTL in flight carries the key that
\* normalizeKey derived, when the call was invoked, from the flag as it
\* then was; a later setCaseSensitivity does not reach it.
C29_InFlightKey ==
    flight.phase # "idle" => flight.used = flight.key

\* the entry under physical key k is held by Redis past time t, its backend
\* expiry having been moved beyond the expiry written in its envelope
Extended(db, k, t) ==
    /\ Present(db, k)
    /\ db[k].type = "string"
    /\ \E e \in db[k].exp :
          /\ e > t
          /\ \E x \in DeserializeValue(db[k].val).expiresAt : x < DateNow(e)

\* C31: after expire(k, t) has moved the expiry of a live entry further out,
\* get(k) keeps returning the value until that later time, and does not
\* return null or delete the entry at the original expiry.
C31_ExpireExtends ==
    [][(/\ call'.op = "get"
        /\ now' = now
        /\ ~call'.fail
        /\ ~call'.delFails
        /\ Extended(redis, CallKey(call'), now))
           => /\ ret' = DeserializeValue(redis[CallKey(call')].val).data
              /\ Present(redis', CallKey(call'))]_vars

\* C32: what set(k, v, {ttl: 0}) stores is permanent: the entry has no
\* backend TTL and its envelope no expiresAt.
C32_TtlZeroPermanent ==
    (call.op = "set" /\ ret = TRUE /\ call.ttl = 0 /\ call.at = now
        /\ Present(redis, CallKey(call)))
        => /\ redis[CallKey(call)].exp = {}
           /\ DeserializeValue(redis[CallKey(call)].val).expiresAt = {}

---------------------------------------------------------------------------
(* Keys of either case, read and written under either policy.               *)

CaseKeys == {<<"K">>, <<"k">>}

CaseSetCalls ==
    [key : {<<"K">>}, value : StoredValues, ns : NoNamespace, ttl : {0},
     tags : {{}}, compression : {TRUE}, fail : {FALSE}]

NextCase ==
    \/ Sets(CaseSetCalls)
    \/ \E key \in CaseKeys : CacheGet(key, <<>>, FALSE)
    \/ \E key \in CaseKeys : CacheDelete(key, <<>>, FALSE)
    \/ \E value \in BOOLEAN : CacheSetCaseSensitivity(value)
    \/ Tick

SpecCase == Init /\ [][NextCase]_vars

\* the physical key of a key as given, in the default namespace
AsGiven(key) == BuildKey(key, DefaultNamespace).key

\* C33: with what set(K, v) stored under the case-insensitive policy as the
\* only entry, a manager switched to case-sensitive returns null for
\* get(lowercase(K)) and v for get(K).
C33_CaseSwitch ==
    [][(/\ call'.op = "get"
        /\ now' = now
        /\ caseSensitive
        /\ Present(redis, AsGiven(<<"k">>))
        /\ ~Present(redis, AsGiven(<<"K">>)))
           => /\ call'.key = <<"k">> => ret' = Null
              /\ call'.key = <<"K">> =>
                    ret' = DeserializeValue(redis[AsGiven(<<"k">>)].val).data]_vars

---------------------------------------------------------------------------
(* The manager over the Memory adapter.                                     *)

MemoryKeys == {<<"k">>, <<"k", ":", "b">>}
MemoryHashes == {<<"a">>, <<"b">>}
MemoryData == {"big", "huge", "zero"}
LoadTtls == {-1, 0, 1, 3}

NextMemory ==
    \/ \E key \in MemoryKeys, data \in MemoryData, hash \in {<<>>} \cup MemoryHashes :
           BasicSave(key, data, hash)
    \/ \E key \in MemoryKeys, ttl \in LoadTtls, hash \in {<<>>} \cup MemoryHashes :
           BasicLoad(key, ttl, hash)
    \/ \E key \in MemoryKeys : BasicList(key)
    \/ \E key \in MemoryKeys, hash \in {<<>>} \cup MemoryHashes : BasicPurge(key, hash)
    \/ BasicFlush
    \/ \E method \in EnhancedMethods : BasicEnhanced(method)
    \/ MemoryTick

SpecMemory == Init /\ [][NextMemory]_vars

\* C34: values saved under one key with different hashes are kept apart: a
\* save or purge under hash h1 changes nothing that load under another
\* hash h2 of the same key returns.
C34_MemoryHashesApart ==
    [][(call'.op \in {"save", "purge"} /\ now' = now /\ call'.hash \in MemoryHashes) =>
          \A h \in MemoryHashes \ {call'.hash} :
              MemoryLoad(store', now, NormalizeKey(call'.key), 3, h)
                  = MemoryLoad(store, now, NormalizeKey(call'.key), 3, h)]_vars

---------------------------------------------------------------------------
(* The legacy and the enhanced methods of one manager over Redis.           *)

LegacyKeys == {<<"k">>}
LegacyHashes == {<<>>, <<"a">>}
LegacyData == {"big", Null}

LegacySetCalls ==
    [key : LegacyKeys, value : {"huge"}, ns : NoNamespace, ttl : {0}, tags : {{}},
     compression : {TRUE}, fail : {FALSE}]

NextLegacy ==
    \/ \E key \in LegacyKeys, data \in LegacyData, hash \in LegacyHashes, fail \in BOOLEAN :
           CacheSave(key, data, hash, fail)
    \/ \E key \in LegacyKeys, ttl \in LoadTtls, hash \in LegacyHashes, fail \in BOOLEAN :
           CacheLoad(key, ttl, hash, fail)
    \/ Sets(LegacySetCalls)
    \/ \E key \in LegacyKeys : CacheGet(key, <<>>, FALSE)
    \/ Tick

SpecLegacy == Init /\ [][NextLegacy]_vars

\* the data and the time saved under a key and hash of the adapter's
\* namespace, none when nothing is saved there
Saved(db, key, hash) ==
    LET bk == BuildKey(key, <<>>)
    IN  IF ~bk.ok \/ ~Present(db, bk.key) THEN {}
        ELSE IF hash # <<>>
        THEN IF db[bk.key].type = "hash" /\ Present(db[bk.key].fields, hash)
             THEN {db[bk.key].fields[hash]} ELSE {}
        ELSE IF db[bk.key].type = "string"
        THEN {[time |-> DeserializeValue(db[bk.key].val).createdAt \div 1000,
               data |-> DeserializeValue(db[bk.key].val).data]}
        ELSE {}

\* C35: load(key, ttl, hash) returns the stored data only if
\* storedTime + ttl > now, in seconds, and the miss value otherwise, with a
\* hash or without; a ttl of 0 or below never returns data.
C35_LoadTtl ==
    [][(call'.op = "load" /\ now' = now /\ ~call'.fail
           /\ (call'.hash = <<>>
                  \/ ~NotAHash(redis, BuildKey(NormalizeKey(call'.key), <<>>).key))) =>
          LET saved == Saved(redis, NormalizeKey(call'.key), NormalizeKey(call'.hash))
          IN  ret' = IF \E e \in saved : e.time + call'.ttl > now
                     THEN (CHOOSE e \in saved : TRUE).data
                     ELSE Null]_vars

---------------------------------------------------------------------------
(* Enhanced methods on a manager over the Memory adapter.                   *)

EnhancedMessage == "Enhanced methods require an EnhancedAdapter"

\* what the legacy methods do on the manager over Memory
LegacyWorks ==
    /\ (call'.op = "save" /\ ~Falsy(call'.data)) =>
           /\ ret' = call'.data
           /\ Present(store', NormalizeKey(call'.key))
           /\ store'[NormalizeKey(call'.key)].data = call'.data
    /\ (call'.op = "load" /\ Present(store, NormalizeKey(call'.key))) =>
           ret' = IF store[NormalizeKey(call'.key)].time + call'.ttl > now
                  THEN store[NormalizeKey(call'.key)].data ELSE False
    /\ call'.op = "list" =>
           ret' = {k \in DOMAIN store : StartsWith(k, NormalizeKey(call'.key))}
    /\ call'.op = "purge" =>
           /\ ret' = Present(store, NormalizeKey(call'.key))
           /\ ~Present(store', NormalizeKey(call'.key))
    /\ call'.op = "flush" => ret' = TRUE /\ store' = <<>>

\* C36 as stated: on a manager over a legacy-only adapter every enhanced
\* method, pipeline() among them, fails with "Enhanced methods require an
\* EnhancedAdapter" and leaves the stored data as it was, and the legacy
\* methods keep working.
C36_EveryEnhancedMethod ==
    [][now' = now =>
          /\ call'.op = "enhanced" =>
                 ret' = RejectedWith(EnhancedMessage) /\ store' = store
          /\ LegacyWorks]_vars

\* C36 amended: every enhanced method but pipeline() rejects with that
\* message; pipeline() throws "Pipeline requires an EnhancedAdapter"; none
\* changes the stored data, and the legacy methods keep working.
C36_EnhancedRejected ==
    [][now' = now =>
          /\ (call'.op = "enhanced" /\ call'.method # "pipeline") =>
                 ret' = RejectedWith(EnhancedMessage) /\ store' = store
          /\ (call'.op = "enhanced" /\ call'.method = "pipeline") =>
                 ret' = RejectedWith("Pipeline requires an EnhancedAdapter") /\ store' = store
          /\ LegacyWorks]_vars

\* an enhanced method was rejected on a manager that holds saved data
C36_EnhancedRejectedWitness ==
    /\ call.op = "enhanced"
    /\ call.method = "mset"
    /\ ret = RejectedWith(EnhancedMessage)
    /\ store # <<>>

---------------------------------------------------------------------------
(* Concurrent deletes of one key.                                           *)

\* every delete that was called has returned
AllReturned == \A p \in DOMAIN deletes : deletes[p].pc = "done"

\* C37: when several delete(k) calls run concurrently on an existing key
\* and the backend answers each of them, then once all have returned at
\* least one has reported true and the key is absent; no call raises,
\* whether or not the backend answered it.
C37_ConcurrentDeletes ==
    /\ \A p \in DOMAIN deletes : deletes[p].pc = "done" => ~deletes[p].ret.rejected
    /\ (/\ AllReturned
        /\ \E p \in DOMAIN deletes : deletes[p].existed
        /\ \A p \in DOMAIN deletes : ~deletes[p].threw)
       => /\ \E p \in DOMAIN deletes : deletes[p].ret = Returned(TRUE)
          /\ \A p \in DOMAIN deletes :
                 ~Present(mredis, BackendKey(deletes[p].key, <<>>))

\* three deletes of an existing key have returned, one after a retry, the
\* one called first reporting false
C37_ConcurrentDeletesWitness ==
    /\ DOMAIN deletes = Callers
    /\ AllReturned
    /\ \A p \in Callers : deletes[p].existed /\ ~deletes[p].threw
    /\ deletes[1].ret = Returned(FALSE)
    /\ \E p \in Callers : deletes[p].ret = Returned(TRUE)

---------------------------------------------------------------------------
(* Tagged entries over unbounded time.  The clock is read relative to the   *)
(* present: when time passes, every stored expiry and time stamp moves back *)
(* by the time passed, and now stays 0.  Counters past MaxOps are not told  *)
(* apart.                                                                   *)

LiveKeys == {<<"k">>, <<"j">>}
LiveTtl == 2 * TickSeconds

Saturate(st) == [f \in DOMAIN st |-> IF st[f] > MaxOps THEN MaxOps ELSE st[f]]

ApplyLive(r, c) ==
    /\ redis' = r.db
    /\ stats' = Saturate(r.stats)
    /\ ret' = r.ret
    /\ call' = c
    /\ UNCHANGED <<now, enableCompression, mvars, pipe, store>>

\* Cache.set with tags, Cache.delete, Cache.deleteMany, Cache.flushNamespace
\* and Cache.getKeysByTags
LiveSet(key, tags) ==
    ApplyLive(RedisSet(redis, stats, now, enableCompression, NormalizeKey(key), "zero",
                       Options(<<>>, LiveTtl, tags, TRUE), FALSE),
              [op |-> "set", key |-> key, tags |-> tags])

LiveDelete(key) ==
    LET r == RedisMdel(redis, stats, <<NormalizeKey(key)>>, ReadOptions(<<>>), FALSE)
    IN  ApplyLive([r EXCEPT !.ret = (r.ret > 0)], [op |-> "delete", key |-> key])

LiveDeleteMany(keys) ==
    ApplyLive(RedisMdel(redis, stats, NormalizeKeys(keys), ReadOptions(<<>>), FALSE),
              [op |-> "deleteMany", keys |-> keys])

LiveFlushNamespace ==
    ApplyLive(RedisFlushNamespace(redis, stats, CacheNamespace(<<>>), FALSE),
              [op |-> "flushNamespace"])

LiveGetKeysByTags(tags) ==
    ApplyLive(RedisGetKeysByTags(redis, stats, tags, FALSE),
              [op |-> "getKeysByTags", tags |-> tags])

\* a stored record seen TickSeconds later
Aged(rec) ==
    LET moved == [rec EXCEPT !.exp = {e - TickSeconds : e \in @}]
    IN  IF rec.type = "string" /\ "body" \in DOMAIN rec.val /\ rec.val.marker = ""
        THEN [moved EXCEPT
                 !.val.body.createdAt = @ - DateNow(TickSeconds),
                 !.val.body.expiresAt = {e - DateNow(TickSeconds) : e \in @}]
        ELSE moved

\* TickSeconds pass: the server drops the keys whose expiry is due
Elapse ==
    /\ redis' = [k \in DOMAIN redis \ ExpiredAt(redis, now + TickSeconds) |->
                    Aged(redis[k])]
    /\ UNCHANGED <<now, stats, enableCompression, call, ret, mvars, pipe, store>>

NextLive ==
    \/ \E key \in LiveKeys, tags \in TagOptions : LiveSet(key, tags)
    \/ \E key \in LiveKeys : LiveDelete(key)
    \/ \E key \in LiveKeys : LiveDeleteMany(<<key>>)
    \/ LiveFlushNamespace
    \/ LiveGetKeysByTags(Tags)
    \/ Elapse

\* time never stops
SpecLive == Init /\ [][NextLive]_vars /\ WF_vars(Elapse)

\* the physical key of a live key
LiveKey(key) == BuildKey(NormalizeKey(key), DefaultNamespace).key

\* the key is gone and a tag index still lists it
Dangling(key) ==
    /\ ~Present(redis, LiveKey(key))
    /\ \E tag \in Tags : LiveKey(key) \in RedisSMembers(redis, BuildTagKey(tag))

\* C38: once a tagged key is deleted or has expired, it is eventually
\* absent from every tag index it was in, whatever is written meanwhile
\* with the same tag.
C38_TagIndexCleaned ==
    \A key \in LiveKeys :
        Dangling(key) ~>
            (\A tag \in Tags : LiveKey(key) \notin RedisSMembers(redis, BuildTagKey(tag)))

---------------------------------------------------------------------------
(* Completeness of the tag indexes.                                         *)

\* the entries in the keyspace that have not expired
LiveEntries(db, t) == {k \in DOMAIN db : db[k].type = "string" /\ k \notin ExpiredAt(db, t)}

\* C39: every live entry whose most recent set or mset carried tag t is a
\* member of the index of t.
C39_TagIndexComplete ==
    \A k \in LiveEntries(redis, now) :
        \A tag \in redis[k].wtags : k \in RedisSMembers(redis, BuildTagKey(tag))

---------------------------------------------------------------------------
(* One key-space for the legacy and the enhanced methods.                   *)

\* the physical key the enhanced methods of the manager address
EnhancedKey(key) == BuildKey(NormalizeKey(key), CacheNamespace(<<>>))

\* C40: on a manager as constructed, a value stored with save(key, data)
\* without a hash is what get(key) returns, and a value stored with
\* set(key, v) is what load(key, ttl) returns.
C40_OneKeySpace ==
    [][/\ (call'.op = "get" /\ now' = now
             /\ Saved(redis, NormalizeKey(call'.key), <<>>) # {}) =>
              \E e \in Saved(redis, NormalizeKey(call'.key), <<>>) : ret' = e.data
       /\ (call'.op = "load" /\ now' = now /\ call'.hash = <<>> /\ ~call'.fail
             /\ call'.ttl > 0
             /\ Class(redis, now, EnhancedKey(call'.key)) = "live") =>
              ret' = Held(redis, EnhancedKey(call'.key))]_vars

====
